---------------------------- MODULE Spec2Model ----------------------------
(***************************************************************************)
(* A model of terraform-provider-vboxweb's orchestration layer:            *)
(*   - the port allocator (internal/vbox/port_allocator.go) and the host   *)
(*     IP predicate it uses (NormalizeHostIP / HostIPConflicts);           *)
(*   - the Client operations (internal/vbox/client.go): session handling,  *)
(*     machine resolution, progress polling, power state convergence and   *)
(*     the NAT port-forward operations, as sequences of remote calls whose *)
(*     outcomes the remote system chooses.                                 *)
(* Go strings on which the code computes (trimming, lower-casing,          *)
(* substring search) are sequences of one-character strings.               *)
(***************************************************************************)
EXTENDS Integers, Sequences, FiniteSets, TLC

(***************************************************************************)
(* Strings as character sequences.                                         *)
(***************************************************************************)
IsSpace(c) == c \in {" ", "\t", "\n", "\r"}

RECURSIVE TrimLeft(_)
TrimLeft(s) ==
  IF s = <<>> THEN <<>>
  ELSE IF IsSpace(Head(s)) THEN TrimLeft(Tail(s)) ELSE s

RECURSIVE TrimRight(_)
TrimRight(s) ==
  IF s = <<>> THEN <<>>
  ELSE IF IsSpace(s[Len(s)]) THEN TrimRight(SubSeq(s, 1, Len(s) - 1)) ELSE s

\* strings.TrimSpace
TrimSpace(s) == TrimRight(TrimLeft(s))

UpperToLower ==
  ("A" :> "a") @@ ("B" :> "b") @@ ("C" :> "c") @@ ("D" :> "d") @@ ("E" :> "e") @@
  ("F" :> "f") @@ ("G" :> "g") @@ ("H" :> "h") @@ ("I" :> "i") @@ ("J" :> "j") @@
  ("K" :> "k") @@ ("L" :> "l") @@ ("M" :> "m") @@ ("N" :> "n") @@ ("O" :> "o") @@
  ("P" :> "p") @@ ("Q" :> "q") @@ ("R" :> "r") @@ ("S" :> "s") @@ ("T" :> "t") @@
  ("U" :> "u") @@ ("V" :> "v") @@ ("W" :> "w") @@ ("X" :> "x") @@ ("Y" :> "y") @@
  ("Z" :> "z")

\* strings.ToLower
ToLower(s) ==
  [i \in DOMAIN s |-> IF s[i] \in DOMAIN UpperToLower THEN UpperToLower[s[i]] ELSE s[i]]

\* strings.Contains
Contains(s, sub) ==
  \E i \in 0..(Len(s) - Len(sub)) : SubSeq(s, i + 1, i + Len(sub)) = sub

(***************************************************************************)
(* Host IP strings used as inputs.                                         *)
(***************************************************************************)
IP_ANY     == <<>>
IP_ZERO    == <<"0", ".", "0", ".", "0", ".", "0">>
IP_LOOP    == <<"1", "2", "7", ".", "0", ".", "0", ".", "1">>
IP_LOOP_SP == <<" ">> \o IP_LOOP
IP_LAN     == <<"1", "9", "2", ".", "1", "6", "8", ".", "1", ".", "1">>
IP_ZERO_SP == <<" ", " ">> \o IP_ZERO \o <<"\t">>

(***************************************************************************)
(* NAT redirect codec: host IP equivalence.                                *)
(***************************************************************************)
NormalizeHostIPUntrimmed(ip) == IF ip = <<>> \/ ip = IP_ZERO THEN <<>> ELSE ip

NormalizeHostIP(ip) ==
  LET t == TrimSpace(ip)
  IN  IF t = <<>> \/ t = IP_ZERO THEN <<>> ELSE t

HostIPConflicts(ip1, ip2) ==
  LET n1 == NormalizeHostIP(ip1)
      n2 == NormalizeHostIP(ip2)
  IN  IF n1 = <<>> \/ n2 = <<>> THEN TRUE ELSE n1 = n2

(***************************************************************************)
(* Port allocator.  Ports are uint16: the loop counter wraps modulo 2^16.  *)
(***************************************************************************)
PortModulus == 65536

HostIPScopeAny   == "any"
HostIPScopeExact == "exact"

\* bounds of the allocator inputs
MaxUsed  == 2
MaxRules == 2

\* the adapter slots CollectUsedPorts visits: 0..MaxSlot
MaxSlot == 7

PortVals == {0, 1, PortModulus - 1}
UsedIPs  == {IP_ANY, IP_LOOP, IP_LAN}
OptIPs   == {IP_ZERO, IP_ZERO_SP, IP_LOOP_SP, IP_LAN}

UsedPortRecords == [Port : PortVals, HostIP : UsedIPs]

RECURSIVE SeqsUpTo(_, _)
SeqsUpTo(S, n) ==
  IF n = 0 THEN {<<>>}
  ELSE LET R == SeqsUpTo(S, n - 1)
       IN  R \cup {Append(q, x) : q \in R, x \in S}

\* only the record listed first blocks its port
BuildUsedSetHeadOnly(usedList, o) ==
  IF usedList = <<>> THEN {} ELSE {Head(usedList).Port}

\* every record blocks its port, whatever the scope
BuildUsedSetAnyScope(usedList, o) == {usedList[i].Port : i \in DOMAIN usedList}

\* the set of ports the allocation must avoid (the map usedSet of the code)
RECURSIVE BuildUsedSet(_, _)
BuildUsedSet(usedList, o) ==
  IF usedList = <<>> THEN {}
  ELSE LET up == Head(usedList)
           conflicting == IF o.Scope = HostIPScopeAny
                            THEN TRUE
                            ELSE HostIPConflicts(o.HostIP, up.HostIP)
       IN  (IF conflicting THEN {up.Port} ELSE {}) \cup BuildUsedSet(Tail(usedList), o)

NoPort == -1

\* for port := MinPort; port <= MaxPort; port++ { if !usedSet[port] { return port } }
RECURSIVE ScanRange(_, _, _)
ScanRange(port, maxPort, usedSet) ==
  IF port > maxPort THEN NoPort
  ELSE IF port \notin usedSet THEN port
  ELSE ScanRange((port + 1) % PortModulus, maxPort, usedSet)

\* the number of times the body of the scan loop runs: the counter wraps with
\* the port, so the condition port <= maxPort is tested on the wrapped value
RECURSIVE ScanIterations(_, _, _)
ScanIterations(port, maxPort, usedSet) ==
  IF port > maxPort THEN 0
  ELSE IF port \notin usedSet THEN 1
  ELSE 1 + ScanIterations((port + 1) % PortModulus, maxPort, usedSet)

\* every conflicting port, inside the range or not
CountUsedAnywhere(port, maxPort, usedSet) == Cardinality(usedSet)

\* the counting loop of the exhaustion path
RECURSIVE CountUsed(_, _, _)
CountUsed(port, maxPort, usedSet) ==
  IF port > maxPort THEN 0
  ELSE (IF port \in usedSet THEN 1 ELSE 0)
       + CountUsed((port + 1) % PortModulus, maxPort, usedSet)

SelectAvailablePort(usedList, o) ==
  IF o.MinPort > o.MaxPort
    THEN [port |-> 0, err |-> "ErrInvalidRange", usedInRange |-> 0, rangeSize |-> 0]
    ELSE LET usedSet == BuildUsedSet(usedList, o)
             p == ScanRange(o.MinPort, o.MaxPort, usedSet)
         IN  IF p # NoPort
               THEN [port |-> p, err |-> "", usedInRange |-> 0, rangeSize |-> 0]
               ELSE [port |-> 0, err |-> "ErrNoPorts",
                     usedInRange |-> CountUsed(o.MinPort, o.MaxPort, usedSet),
                     rangeSize |-> o.MaxPort - o.MinPort + 1]

(***************************************************************************)
(* The remote VirtualBox instance as the allocator sees it: the NAT        *)
(* redirects of every adapter (machine, slot) and of every NAT network.    *)
(***************************************************************************)
Machines    == <<"m1", "m2">>
NATNetworks == <<"net1">>
Slots       == 0..MaxSlot

AdapterPlaces == {<<Machines[i], s>> : i \in DOMAIN Machines, s \in Slots}
NetPlaces     == {<<NATNetworks[i], -1>> : i \in DOMAIN NATNetworks}
Places        == AdapterPlaces \cup NetPlaces

\* the places that hold redirects in the configurations explored
RulePlaces == {<<"m1", 0>>, <<"m2", MaxSlot>>, <<"net1", -1>>}

Redirects == [Name : {"ssh"}, HostPort : PortVals, HostIP : {IP_ANY, IP_LAN}]

NoRules == [p \in Places |-> <<>>]

RECURSIVE Configs(_)
Configs(n) ==
  IF n = 0 THEN {NoRules}
  ELSE LET C == Configs(n - 1)
       IN  C \cup {[c EXCEPT ![p] = Append(@, r)] : c \in C, p \in RulePlaces, r \in Redirects}

\* every host port bound by some redirect of the instance
ExistingHostPorts(rules) ==
  UNION {{rules[p][i].HostPort : i \in DOMAIN rules[p]} : p \in Places}

UsedPortsOf(redirects) ==
  [i \in DOMAIN redirects |-> [Port |-> redirects[i].HostPort, HostIP |-> redirects[i].HostIP]]

\* the slot loop of one machine, from slot s on; a place in skipped is one where
\* GetNetworkAdapter, GetNATEngine or GetNATRedirects returned an error
RECURSIVE CollectSlots(_, _, _, _)
CollectSlots(rules, m, s, skipped) ==
  IF s > MaxSlot THEN <<>>
  ELSE (IF <<m, s>> \in skipped THEN <<>> ELSE UsedPortsOf(rules[<<m, s>>]))
       \o CollectSlots(rules, m, s + 1, skipped)

RECURSIVE CollectMachines(_, _, _)
CollectMachines(rules, machineRefs, skipped) ==
  IF machineRefs = <<>> THEN <<>>
  ELSE CollectSlots(rules, Head(machineRefs), 0, skipped)
       \o CollectMachines(rules, Tail(machineRefs), skipped)

RECURSIVE CollectNetworks(_, _, _)
CollectNetworks(rules, natNetworkRefs, skipped) ==
  IF natNetworkRefs = <<>> THEN <<>>
  ELSE (IF <<Head(natNetworkRefs), -1>> \in skipped
          THEN <<>> ELSE UsedPortsOf(rules[<<Head(natNetworkRefs), -1>>]))
       \o CollectNetworks(rules, Tail(natNetworkRefs), skipped)

\* the outcomes of the remote enumeration calls of one CollectUsedPorts
EnumOutcomes ==
  [machinesOK : BOOLEAN, natNetworksOK : BOOLEAN, skipped : SUBSET RulePlaces]

CollectUsedPorts(rules, includeNATNetworks, oc) ==
  IF ~oc.machinesOK
    THEN [used |-> <<>>, err |-> "ErrEnumerateMachines"]
    ELSE [used |-> CollectMachines(rules, Machines, oc.skipped)
                   \o (IF includeNATNetworks /\ oc.natNetworksOK
                         THEN CollectNetworks(rules, NATNetworks, oc.skipped)
                         ELSE <<>>),
          err |-> ""]

(***************************************************************************)
(* Client (internal/vbox/client.go).                                       *)
(***************************************************************************)
MachineStateNull       == "Null"
MachineStatePoweredOff == "PoweredOff"
MachineStateRunning    == "Running"
MachineStateSaved      == "Saved"
MachineStatePaused     == "Paused"
MachineStates ==
  {MachineStateNull, MachineStatePoweredOff, MachineStateRunning,
   MachineStateSaved, MachineStatePaused}

\* seconds
DefaultTimeout == 1200
PollInterval   == 2

\* bounds of the Client model
ShortTimeout == 3   \* a caller's timeout, seconds
SlowCall     == 2   \* seconds a slow completion probe takes
MaxPolls     == 2   \* probes of one wait that report "not completed"

S_STARTED == <<"s", "t", "a", "r", "t", "e", "d">>
S_STOPPED == <<"s", "t", "o", "p", "p", "e", "d">>
S_PAUSED  == <<"p", "a", "u", "s", "e", "d">>
S_VM      == <<"v", "m">>
S_TPL     == <<"t", "p", "l">>

\* desired-state strings a caller passes
DesiredInputs ==
  {<<"S", "t", "a", "r", "t", "e", "d">>,
   <<" ">> \o S_STOPPED \o <<" ">>,
   S_PAUSED, <<>>, <<" ">>}

\* error texts the remote system attaches to a failed call
T_COULD_NOT_FIND == <<"C", "o", "u", "l", "d", " ", "n", "o", "t", " ", "f", "i", "n", "d", " ", "V", "M">>
T_OBJECT_NOT_FOUND == <<"O", "b", "j", "e", "c", "t", " ", "n", "o", "t", " ", "f", "o", "u", "n", "d">>
T_NOT_FOUND == <<"n", "o", "t", " ", "f", "o", "u", "n", "d">>
T_DOES_NOT_EXIST == <<"r", "u", "l", "e", " ", "d", "o", "e", "s", " ", "n", "o", "t", " ", "e", "x", "i", "s", "t">>
T_REFUSED == <<"r", "e", "f", "u", "s", "e", "d">>

Ops ==
  {"CloneAndConverge", "GetMachineInfoByID", "GetStateByID", "ConvergeStateByID",
   "DeleteByID", "CreateNATPortForward", "ReadNATPortForward",
   "DeleteNATPortForward", "AllocateNATHostPort", "GetAllNATRedirects"}

VARIABLES
  natRules,    \* remote: place -> sequence of redirects
  opts,        \* PortAllocatorOptions of the allocation
  usedPorts,   \* []UsedPort handed to SelectAvailablePort
  sel,         \* what SelectAvailablePort returned
  ppc,         \* position of a bare allocation: idle, collected, done, failed
  op,          \* the public Client operation in progress ("none" before the first)
  req,         \* its arguments, after the defaults the operation applies
  stack,       \* call stack of labels; Head(stack) is the statement to execute
  calls,       \* the remote calls the operation has made, in order
  err,         \* error returned by the function that returned last ("" is nil)
  st,          \* the state string convergeState holds and returns
  out,         \* the variables the session closure assigns
  result,      \* what the public operation returned
  mstate,      \* remote: the machine's state
  progKind,    \* remote: what the progress handle being polled stands for
  now,         \* the wall clock, seconds
  deadline,    \* waitProgress's deadline
  cancelled,   \* the caller's context is cancelled
  polls,       \* "not completed" answers in the current wait
  round,       \* 1, or 2 when the caller has repeated the operation
  prev,        \* the first round's result
  changed,     \* remote: the machine state changed since it was last read
  callback,    \* the resource callback in progress ("none" outside one)
  cpc,         \* its position: the Client call it waits for, or "end"
  plan,        \* req.Plan of Create and Update
  prior,       \* req.State of Read and Update
  hostPort,    \* the local hostPort of Create and Update
  state,       \* resp.State
  diags,       \* resp.Diagnostics: the summary of the error added, "" if none
  runs,        \* two Create callbacks of parallel applies: position and port of each
  input,       \* the string handed to a parsing function
  fpc,         \* "ready" before the function is applied, "returned" after
  output       \* what the function returned

portVars   == <<natRules, opts, usedPorts, sel, ppc>>
clientVars == <<op, req, stack, calls, err, st, out, result, mstate, progKind,
                now, deadline, cancelled, polls, round, prev, changed>>
resVars    == <<callback, cpc, plan, prior, hostPort, state, diags, runs>>
parseVars  == <<input, fpc, output>>
vars       == <<portVars, clientVars, resVars, parseVars>>

NoSel == [port |-> 0, err |-> "", usedInRange |-> 0, rangeSize |-> 0]
NoReq == [name |-> <<>>, source |-> <<>>, desiredRaw |-> <<>>, desired |-> <<>>,
          timeout |-> 0, rule |-> "", hostPort |-> 0]
NoOut == [uuid |-> "", name |-> "", state |-> "", found |-> FALSE, rule |-> "",
          port |-> 0, list |-> <<>>]
NoResult == [err |-> "", val |-> NoOut]

NoOpts ==
  [MinPort |-> 0, MaxPort |-> 1, HostIP |-> IP_ANY, Scope |-> HostIPScopeAny,
   IncludeNATNetworks |-> TRUE]

\* natPortForwardModel, the attributes the callbacks compute with
NoPlan ==
  [Name |-> "", HostPort |-> 0, AutoHostPort |-> FALSE, AutoHostPortMin |-> 0,
   AutoHostPortMax |-> 0]
NoState == [set |-> FALSE, Name |-> "", HostPort |-> 0, EffectiveHostPort |-> 0]

\* the parallel applies and the rule each one declares
Applies   == {1, 2}
ApplyRule == <<"ssh", "dns">>
NoRun     == [pc |-> "none", port |-> 0, full |-> FALSE, effective |-> 0]
NoRuns    == [i \in Applies |-> NoRun]

\* no resource callback is running
ResourceIdle ==
  /\ callback = "none"
  /\ cpc = ""
  /\ plan = NoPlan
  /\ prior = NoState
  /\ hostPort = 0
  /\ state = NoState
  /\ diags = ""

\* no parsing function is being applied
NoOutput == [err |-> "", val |-> <<>>]
ParseIdle ==
  /\ input = <<>>
  /\ fpc = "none"
  /\ output = NoOutput

\* the Client holds no state between operations: a fresh one is idle
ClientIdle ==
  /\ op = "none"
  /\ req = NoReq
  /\ stack = <<"idle">>
  /\ calls = <<>>
  /\ err = ""
  /\ st = ""
  /\ out = NoOut
  /\ result = NoResult
  /\ progKind = ""
  /\ now = 0
  /\ deadline = 0
  /\ cancelled = FALSE
  /\ polls = 0
  /\ round = 1
  /\ prev = NoResult
  /\ changed = FALSE

(***************************************************************************)
(* The allocator on its own.                                               *)
(***************************************************************************)
SelectOpts ==
  [MinPort : PortVals, MaxPort : PortVals, HostIP : OptIPs,
   Scope : {HostIPScopeAny, HostIPScopeExact}, IncludeNATNetworks : {TRUE}]

AllocOpts ==
  [MinPort : PortVals, MaxPort : PortVals, HostIP : {IP_LOOP},
   Scope : {HostIPScopeAny, HostIPScopeExact}, IncludeNATNetworks : BOOLEAN]

\* AllocatePort, first half: CollectUsedPorts
CollectStep ==
  /\ ppc = "idle"
  /\ \E oc \in EnumOutcomes :
       LET r == CollectUsedPorts(natRules, opts.IncludeNATNetworks, oc)
       IN  IF r.err # ""
             THEN /\ ppc' = "failed"
                  /\ sel' = [NoSel EXCEPT !.err = r.err]
                  /\ UNCHANGED usedPorts
             ELSE /\ ppc' = "collected"
                  /\ usedPorts' = r.used
                  /\ UNCHANGED sel
  /\ UNCHANGED <<natRules, opts, clientVars, resVars, parseVars>>

\* AllocatePort, second half, and the direct call: SelectAvailablePort
SelectStep ==
  /\ ppc = "collected"
  /\ sel' = SelectAvailablePort(usedPorts, opts)
  /\ ppc' = "done"
  /\ UNCHANGED <<natRules, opts, usedPorts, clientVars, resVars, parseVars>>

\* the lists with the records of usedList, in any order and with repetitions
Reorderings(usedList) ==
  LET records == {usedList[i] : i \in DOMAIN usedList}
  IN  {q \in SeqsUpTo(records, Len(usedList) + 1) :
         {q[i] : i \in DOMAIN q} = records}

\* a later call of SelectAvailablePort with the same options and the same
\* records, listed in some order
SelectAgain ==
  /\ ppc = "done"
  /\ \E q \in Reorderings(usedPorts) :
       /\ usedPorts' = q
       /\ sel' = SelectAvailablePort(q, opts)
  /\ ppc' = "again"
  /\ UNCHANGED <<natRules, opts, clientVars, resVars, parseVars>>

InitSelect ==
  /\ natRules = NoRules
  /\ opts \in SelectOpts
  /\ usedPorts \in SeqsUpTo(UsedPortRecords, MaxUsed)
  /\ sel = NoSel
  /\ ppc = "collected"
  /\ mstate = MachineStatePoweredOff
  /\ ClientIdle
  /\ ResourceIdle
  /\ runs = NoRuns
  /\ ParseIdle

InitAlloc ==
  /\ natRules \in Configs(MaxRules)
  /\ opts \in AllocOpts
  /\ usedPorts = <<>>
  /\ sel = NoSel
  /\ ppc = "idle"
  /\ mstate = MachineStatePoweredOff
  /\ ClientIdle
  /\ ResourceIdle
  /\ runs = NoRuns
  /\ ParseIdle

SpecSelect == InitSelect /\ [][SelectStep \/ SelectAgain]_vars
SpecAlloc  == InitAlloc /\ [][CollectStep \/ SelectStep]_vars

(***************************************************************************)
(* Client: control helpers.                                                *)
(***************************************************************************)
PC == Head(stack)

Call(api, ok) == [api |-> api, ok |-> ok, ret |-> "", text |-> <<>>]

Called(c)        == calls' = Append(calls, c)
Goto(l)          == stack' = <<l>> \o Tail(stack)
CallFn(fn, cont) == stack' = <<fn, cont>> \o Tail(stack)
Return(e)        == stack' = Tail(stack) /\ err' = e

\* what a step leaves alone unless it says otherwise
frame == <<natRules, opts, usedPorts, sel, ppc, op, req, result, progKind,
           now, deadline, cancelled, polls, round, prev, resVars, parseVars>>

\* x, err := api.X(...); if err != nil { return err }
RemoteCall(api, next) ==
  \E ok \in BOOLEAN :
    /\ Called(Call(api, ok))
    /\ IF ok THEN Goto(next) /\ UNCHANGED err ELSE Return(api)

RemoteCallUndeferred(api, next, deferred) == RemoteCall(api, next)

\* the same inside a function holding a deferred call: an error runs the defer
RemoteCallDeferred(api, next, deferred) ==
  \E ok \in BOOLEAN :
    /\ Called(Call(api, ok))
    /\ IF ok THEN Goto(next) /\ UNCHANGED err ELSE Goto(deferred) /\ err' = api

\* a public operation is entered with arguments r; verr is its validation error
Enter(o, r, verr) ==
  /\ op' = o
  /\ req' = r
  /\ calls' = <<>>
  /\ err' = ""
  /\ st' = ""
  /\ out' = NoOut
  /\ progKind' = ""
  /\ now' = 0
  /\ deadline' = 0
  /\ cancelled' = FALSE
  /\ polls' = 0
  /\ IF verr # ""
       THEN stack' = <<"done">> /\ result' = [err |-> verr, val |-> NoOut]
       ELSE stack' = <<"ws_logon">> /\ result' = NoResult
  /\ UNCHANGED <<natRules, usedPorts, sel, ppc, mstate, changed>>

Timeouts == {0, ShortTimeout}

EffectiveTimeout(t) == IF t <= 0 THEN DefaultTimeout ELSE t

\* what the public operation returns from the closure's variables and its error
Returned(o, vals, e) ==
  [err |-> e,
   val |-> IF o = "GetMachineInfoByID" /\ e # "" THEN NoOut ELSE vals]

(***************************************************************************)
(* withSession: Logon, run the closure, Logoff (deferred).                 *)
(***************************************************************************)
Body(o) ==
  CASE o = "CloneAndConverge"     -> "cac"
    [] o = "GetMachineInfoByID"   -> "gmi"
    [] o = "GetStateByID"         -> "gs"
    [] o = "ConvergeStateByID"    -> "csb"
    [] o = "DeleteByID"           -> "del"
    [] o = "CreateNATPortForward" -> "cnat"
    [] o = "ReadNATPortForward"   -> "rnat"
    [] o = "DeleteNATPortForward" -> "dnat"
    [] o = "AllocateNATHostPort"  -> "anat"
    [] o = "GetAllNATRedirects"   -> "gnat"

withSessionLogonUnchecked ==
  /\ PC = "ws_logon"
  /\ \E ok \in BOOLEAN :
       Called([Call("Logon", ok) EXCEPT !.ret = IF ok THEN "session" ELSE ""])
  /\ stack' = <<Body(op), "ws_logoff">>
  /\ UNCHANGED <<natRules, opts, usedPorts, sel, ppc, op, req, progKind, now, deadline,
                 cancelled, polls, round, prev, resVars, parseVars, st, out, mstate, changed, err, result>>

\* session, err := api.Logon(...); if err != nil { return err }
withSessionLogon ==
  /\ PC = "ws_logon"
  /\ \E ok \in BOOLEAN :
       /\ Called([Call("Logon", ok) EXCEPT !.ret = IF ok THEN "session" ELSE ""])
       /\ IF ok
            THEN /\ stack' = <<Body(op), "ws_logoff">>
                 /\ UNCHANGED <<err, result>>
            ELSE /\ stack' = <<"done">>
                 /\ err' = "Logon"
                 /\ result' = Returned(op, out, "Logon")
  /\ UNCHANGED <<natRules, opts, usedPorts, sel, ppc, op, req, progKind, now,
                 deadline, cancelled, polls, round, prev, resVars, parseVars, st, out, mstate, changed>>

withSessionLogoffMasking ==
  /\ PC = "ws_logoff"
  /\ \E ok \in BOOLEAN :
       /\ Called([Call("Logoff", ok) EXCEPT !.ret = "session"])
       /\ result' = Returned(op, out, IF ok \/ err # "" THEN err ELSE "Logoff")
  /\ stack' = <<"done">>
  /\ UNCHANGED <<natRules, opts, usedPorts, sel, ppc, op, req, progKind, now,
                 deadline, cancelled, polls, round, prev, resVars, parseVars, err, st, out, mstate, changed>>

\* defer func() { _ = api.Logoff(context.Background(), session) }()
withSessionLogoff ==
  /\ PC = "ws_logoff"
  /\ \E ok \in BOOLEAN :
       Called([Call("Logoff", ok) EXCEPT !.ret = "session"])
  /\ result' = Returned(op, out, err)
  /\ stack' = <<"done">>
  /\ UNCHANGED <<natRules, opts, usedPorts, sel, ppc, op, req, progKind, now,
                 deadline, cancelled, polls, round, prev, resVars, parseVars, err, st, out, mstate, changed>>

withSession == withSessionLogon \/ withSessionLogoff

(***************************************************************************)
(* findMachine                                                             *)
(***************************************************************************)
L_COULD_NOT_FIND   == <<"c", "o", "u", "l", "d", " ", "n", "o", "t", " ", "f", "i", "n", "d">>
L_OBJECT_NOT_FOUND == <<"o", "b", "j", "e", "c", "t", " ", "n", "o", "t", " ", "f", "o", "u", "n", "d">>

\* what the remote FindMachine may answer: a reference, or an error text
FindOutcomes ==
  {[ok |-> TRUE,  ref |-> <<"m">>, text |-> <<>>],
   [ok |-> TRUE,  ref |-> <<>>,    text |-> <<>>],
   [ok |-> TRUE,  ref |-> <<" ">>, text |-> <<>>],
   [ok |-> FALSE, ref |-> <<>>,    text |-> T_COULD_NOT_FIND],
   [ok |-> FALSE, ref |-> <<>>,    text |-> T_OBJECT_NOT_FOUND],
   [ok |-> FALSE, ref |-> <<>>,    text |-> T_NOT_FOUND],
   [ok |-> FALSE, ref |-> <<>>,    text |-> T_REFUSED]}

findMachineErrCaseSensitive(fo) ==
  IF ~fo.ok
    THEN IF Contains(fo.text, L_COULD_NOT_FIND) \/ Contains(fo.text, L_OBJECT_NOT_FOUND)
           THEN "NotFound" ELSE "FindMachine"
    ELSE IF TrimSpace(fo.ref) = <<>> THEN "NotFound" ELSE ""

findMachineErr(fo) ==
  IF ~fo.ok
    THEN LET errLower == ToLower(fo.text)
         IN  IF Contains(errLower, L_COULD_NOT_FIND) \/ Contains(errLower, L_OBJECT_NOT_FOUND)
               THEN "NotFound" ELSE "FindMachine"
    ELSE IF TrimSpace(fo.ref) = <<>> THEN "NotFound" ELSE ""

IsNotFoundNever(e) == FALSE

IsNotFound(e) == e = "NotFound"

findMachine ==
  /\ PC = "fm"
  /\ \E fo \in FindOutcomes :
       /\ Called([Call("FindMachine", fo.ok) EXCEPT !.text = IF fo.ok THEN fo.ref ELSE fo.text])
       /\ Return(findMachineErr(fo))
  /\ UNCHANGED <<frame, st, out, mstate, changed>>

(***************************************************************************)
(* waitProgress: poll a progress handle until it completes, the deadline   *)
(* passes or the context is cancelled.                                     *)
(***************************************************************************)
\* the remote operation's effect on the machine once it completed with code 0
CompletedState(kind, s) ==
  CASE kind = "launch"    -> MachineStateRunning
    [] kind = "powerdown" -> MachineStatePoweredOff
    [] kind = "clone"     -> MachineStatePoweredOff
    [] OTHER              -> s

\* deadline := time.Now().Add(timeout)
waitProgressStart ==
  /\ PC = "wp_start"
  /\ deadline' = now + EffectiveTimeout(req.timeout)
  /\ polls' = 0
  /\ Goto("wp")
  /\ UNCHANGED <<natRules, opts, usedPorts, sel, ppc, op, req, result, progKind,
                 now, cancelled, round, prev, resVars, parseVars, calls, err, st, out, mstate, changed>>

waitProgressIterateUnchecked ==
  /\ PC = "wp"
  /\ IF cancelled
       THEN /\ Return("Canceled")
            /\ UNCHANGED <<calls, now, polls>>
       ELSE \/ /\ Called(Call("GetProgressCompleted", FALSE))
               /\ Return("GetProgressCompleted")
               /\ UNCHANGED <<now, polls>>
            \/ /\ polls < MaxPolls
               /\ Called([Call("GetProgressCompleted", TRUE) EXCEPT !.ret = "false"])
               /\ polls' = polls + 1
               /\ \E d \in {0, SlowCall} : now' = now + d + PollInterval
               /\ UNCHANGED <<stack, err>>
            \/ /\ Called([Call("GetProgressCompleted", TRUE) EXCEPT !.ret = "true"])
               /\ Goto("wp_rc")
               /\ UNCHANGED <<now, err, polls>>
  /\ UNCHANGED <<natRules, opts, usedPorts, sel, ppc, op, req, result, progKind,
                 deadline, cancelled, round, prev, resVars, parseVars, st, out, mstate, changed>>

waitProgressIterateDeadlineFirst ==
  /\ PC = "wp"
  /\ IF now > deadline
       THEN /\ Return("Timeout")
            /\ UNCHANGED <<calls, now, polls>>
       ELSE IF cancelled
       THEN /\ Return("Canceled")
            /\ UNCHANGED <<calls, now, polls>>
       ELSE \/ /\ Called(Call("GetProgressCompleted", FALSE))
               /\ Return("GetProgressCompleted")
               /\ UNCHANGED <<now, polls>>
            \/ /\ polls < MaxPolls
               /\ Called([Call("GetProgressCompleted", TRUE) EXCEPT !.ret = "false"])
               /\ polls' = polls + 1
               /\ \E d \in {0, SlowCall} : now' = now + d + PollInterval
               /\ UNCHANGED <<stack, err>>
            \/ /\ Called([Call("GetProgressCompleted", TRUE) EXCEPT !.ret = "true"])
               /\ Goto("wp_rc")
               /\ UNCHANGED <<now, err, polls>>
  /\ UNCHANGED <<natRules, opts, usedPorts, sel, ppc, op, req, result, progKind,
                 deadline, cancelled, round, prev, resVars, parseVars, st, out, mstate, changed>>

waitProgressIterateImpatient ==
  /\ PC = "wp"
  /\ IF cancelled
       THEN /\ Return("Canceled")
            /\ UNCHANGED <<calls, now, polls>>
       ELSE IF now > deadline
       THEN /\ Return("Timeout")
            /\ UNCHANGED <<calls, now, polls>>
       ELSE \/ /\ Called(Call("GetProgressCompleted", FALSE))
               /\ Return("GetProgressCompleted")
               /\ UNCHANGED <<now, polls>>
            \/ /\ polls < MaxPolls
               /\ Called([Call("GetProgressCompleted", TRUE) EXCEPT !.ret = "false"])
               /\ polls' = polls + 1
               /\ \E d \in {0, SlowCall} : now' = now + d + PollInterval
               /\ Return("")
            \/ /\ Called([Call("GetProgressCompleted", TRUE) EXCEPT !.ret = "true"])
               /\ Goto("wp_rc")
               /\ UNCHANGED <<now, err, polls>>
  /\ UNCHANGED <<natRules, opts, usedPorts, sel, ppc, op, req, result, progKind,
                 deadline, cancelled, round, prev, resVars, parseVars, st, out, mstate, changed>>

\* one iteration of the for loop: the select on ctx.Done(), the deadline
\* check, the completion probe, and the sleep when it is not completed
waitProgressIterate ==
  /\ PC = "wp"
  /\ IF cancelled
       THEN /\ Return("Canceled")
            /\ UNCHANGED <<calls, now, polls>>
       ELSE IF now > deadline
       THEN /\ Return("Timeout")
            /\ UNCHANGED <<calls, now, polls>>
       ELSE \/ /\ Called(Call("GetProgressCompleted", FALSE))
               /\ Return("GetProgressCompleted")
               /\ UNCHANGED <<now, polls>>
            \/ /\ polls < MaxPolls
               /\ Called([Call("GetProgressCompleted", TRUE) EXCEPT !.ret = "false"])
               /\ polls' = polls + 1
               /\ \E d \in {0, SlowCall} : now' = now + d + PollInterval
               /\ UNCHANGED <<stack, err>>
            \/ /\ Called([Call("GetProgressCompleted", TRUE) EXCEPT !.ret = "true"])
               /\ Goto("wp_rc")
               /\ UNCHANGED <<now, err, polls>>
  /\ UNCHANGED <<natRules, opts, usedPorts, sel, ppc, op, req, result, progKind,
                 deadline, cancelled, round, prev, resVars, parseVars, st, out, mstate, changed>>

\* rc, err := api.GetProgressResultCode(...)
waitProgressResult ==
  /\ PC = "wp_rc"
  /\ \/ /\ Called(Call("GetProgressResultCode", FALSE))
        /\ Return("GetProgressResultCode")
        /\ UNCHANGED mstate
     \/ /\ Called([Call("GetProgressResultCode", TRUE) EXCEPT !.ret = "0"])
        /\ Return("")
        /\ mstate' = CompletedState(progKind, mstate)
     \/ /\ Called([Call("GetProgressResultCode", TRUE) EXCEPT !.ret = "nonzero"])
        /\ Goto("wp_text")
        /\ UNCHANGED <<err, mstate>>
  /\ UNCHANGED <<frame, st, out, changed>>

waitProgressTextLenient ==
  /\ PC = "wp_text"
  /\ \/ /\ Called(Call("GetProgressErrorText", FALSE))
        /\ Return("")
     \/ /\ Called(Call("GetProgressErrorText", TRUE))
        /\ Return("ProgressFailed")
     \/ /\ Called([Call("GetProgressErrorText", TRUE) EXCEPT !.text = T_REFUSED])
        /\ Return("ProgressFailedText")
  /\ UNCHANGED <<frame, st, out, mstate, changed>>

\* errText, _ := api.GetProgressErrorText(...): the lookup's own error is dropped
waitProgressText ==
  /\ PC = "wp_text"
  /\ \/ /\ Called(Call("GetProgressErrorText", FALSE))
        /\ Return("ProgressFailed")
     \/ /\ Called(Call("GetProgressErrorText", TRUE))
        /\ Return("ProgressFailed")
     \/ /\ Called([Call("GetProgressErrorText", TRUE) EXCEPT !.text = T_REFUSED])
        /\ Return("ProgressFailedText")
  /\ UNCHANGED <<frame, st, out, mstate, changed>>

waitProgress ==
  \/ waitProgressStart
  \/ waitProgressIterate
  \/ waitProgressResult
  \/ waitProgressText

(***************************************************************************)
(* ensureRunning / ensurePoweredOff                                        *)
(***************************************************************************)
ensureRunning ==
  \/ /\ PC = "er"
     /\ RemoteCall("GetSessionObject", "er_launch")
     /\ UNCHANGED <<frame, st, out, mstate, changed>>
  \/ /\ PC = "er_launch"
     /\ \E ok \in BOOLEAN :
          /\ Called([Call("LaunchVMProcess", ok) EXCEPT !.ret = "sessObj"])
          /\ IF ok
               THEN CallFn("wp_start", "er_unlock") /\ progKind' = "launch" /\ UNCHANGED err
               ELSE Return("LaunchVMProcess") /\ UNCHANGED progKind
     /\ UNCHANGED <<natRules, opts, usedPorts, sel, ppc, op, req, result, now, deadline,
                    cancelled, polls, round, prev, resVars, parseVars, st, out, mstate, changed>>
  \/ /\ PC = "er_unlock"
     /\ IF err # ""
          THEN Return(err) /\ UNCHANGED calls
          ELSE /\ \E ok \in BOOLEAN :
                    Called([Call("UnlockSession", ok) EXCEPT !.ret = "sessObj"])
               /\ Return("")
     /\ UNCHANGED <<frame, st, out, mstate, changed>>

ensurePoweredOff ==
  \/ /\ PC = "epo"
     /\ RemoteCall("GetSessionObject", "epo_lock")
     /\ UNCHANGED <<frame, st, out, mstate, changed>>
  \/ /\ PC = "epo_lock"
     /\ \E ok \in BOOLEAN :
          /\ Called([Call("LockMachine", ok) EXCEPT !.ret = "sessObj"])
          /\ IF ok THEN Goto("epo_console") /\ UNCHANGED err ELSE Return("LockMachine")
     /\ UNCHANGED <<frame, st, out, mstate, changed>>
  \/ /\ PC = "epo_console"
     /\ RemoteCall("GetConsole", "epo_down")
     /\ UNCHANGED <<frame, st, out, mstate, changed>>
  \/ /\ PC = "epo_down"
     /\ \E ok \in BOOLEAN :
          /\ Called(Call("PowerDown", ok))
          /\ IF ok
               THEN CallFn("wp_start", "epo_unlock") /\ progKind' = "powerdown" /\ UNCHANGED err
               ELSE Return("PowerDown") /\ UNCHANGED progKind
     /\ UNCHANGED <<natRules, opts, usedPorts, sel, ppc, op, req, result, now, deadline,
                    cancelled, polls, round, prev, resVars, parseVars, st, out, mstate, changed>>
  \/ /\ PC = "epo_unlock"
     /\ IF err # ""
          THEN Return(err) /\ UNCHANGED calls
          ELSE /\ \E ok \in BOOLEAN :
                    Called([Call("UnlockSession", ok) EXCEPT !.ret = "sessObj"])
               /\ Return("")
     /\ UNCHANGED <<frame, st, out, mstate, changed>>

(***************************************************************************)
(* convergeState                                                           *)
(***************************************************************************)
\* the machine state a desired state stands for
TargetState(want) ==
  CASE want = S_STARTED -> MachineStateRunning
    [] want = S_STOPPED -> MachineStatePoweredOff
    [] OTHER            -> ""

convergeStateReadAlwaysActs ==
  /\ PC = "cs"
  /\ \E ok \in BOOLEAN :
       LET want == ToLower(req.desired)
       IN  /\ Called([Call("GetMachineState", ok) EXCEPT !.ret = IF ok THEN mstate ELSE ""])
           /\ changed' = IF ok THEN FALSE ELSE changed
           /\ IF ~ok
                THEN st' = "" /\ Return("GetMachineState")
                ELSE IF want = S_STARTED
                THEN st' = mstate /\ CallFn("er", "cs_reread") /\ UNCHANGED err
                ELSE IF want = S_STOPPED
                THEN st' = mstate /\ CallFn("epo", "cs_reread") /\ UNCHANGED err
                ELSE st' = "" /\ Return("InvalidDesiredState")
  /\ UNCHANGED <<frame, out, mstate>>

\* st, err := api.GetMachineState(...); the branch on want; the early returns
convergeStateRead ==
  /\ PC = "cs"
  /\ \E ok \in BOOLEAN :
       LET want == ToLower(req.desired)
       IN  /\ Called([Call("GetMachineState", ok) EXCEPT !.ret = IF ok THEN mstate ELSE ""])
           /\ changed' = IF ok THEN FALSE ELSE changed
           /\ IF ~ok
                THEN st' = "" /\ Return("GetMachineState")
                ELSE IF want = S_STARTED
                THEN /\ st' = mstate
                     /\ IF mstate = MachineStateRunning
                          THEN Return("")
                          ELSE CallFn("er", "cs_reread") /\ UNCHANGED err
                ELSE IF want = S_STOPPED
                THEN /\ st' = mstate
                     /\ IF mstate = MachineStatePoweredOff
                          THEN Return("")
                          ELSE CallFn("epo", "cs_reread") /\ UNCHANGED err
                ELSE st' = "" /\ Return("InvalidDesiredState")
  /\ UNCHANGED <<frame, out, mstate>>

convergeStateRereadAssumed ==
  /\ PC = "cs_reread"
  /\ IF err # ""
       THEN st' = "" /\ Return(err)
       ELSE st' = TargetState(ToLower(req.desired)) /\ Return("")
  /\ UNCHANGED <<frame, calls, changed, out, mstate>>

convergeStateRereadUnconditional ==
  /\ PC = "cs_reread"
  /\ \E ok \in BOOLEAN :
       /\ Called([Call("GetMachineState", ok) EXCEPT !.ret = IF ok THEN mstate ELSE ""])
       /\ changed' = IF ok THEN FALSE ELSE changed
       /\ st' = IF ok /\ err = "" THEN mstate ELSE ""
       /\ Return(IF err # "" THEN err ELSE IF ok THEN "" ELSE "GetMachineState")
  /\ UNCHANGED <<frame, out, mstate>>

\* the error of ensureRunning / ensurePoweredOff, then the second GetMachineState
convergeStateReread ==
  /\ PC = "cs_reread"
  /\ IF err # ""
       THEN st' = "" /\ Return(err) /\ UNCHANGED <<calls, changed>>
       ELSE \E ok \in BOOLEAN :
              /\ Called([Call("GetMachineState", ok) EXCEPT !.ret = IF ok THEN mstate ELSE ""])
              /\ changed' = IF ok THEN FALSE ELSE changed
              /\ st' = IF ok THEN mstate ELSE ""
              /\ Return(IF ok THEN "" ELSE "GetMachineState")
  /\ UNCHANGED <<frame, out, mstate>>

convergeState == convergeStateRead \/ convergeStateReread

(***************************************************************************)
(* Public operations on machines.                                          *)
(***************************************************************************)
\* the CloneRequest values a caller passes
CloneRequests ==
  [Name : {S_VM}, Source : {S_TPL}, DesiredState : DesiredInputs, Timeout : Timeouts]
  \cup [Name : {<<>>, <<" ">>, S_VM}, Source : {<<" ">>, S_TPL},
        DesiredState : {S_PAUSED}, Timeout : {0}]

\* CloneAndConverge is called with the request cr: the validation and the
\* defaults that precede withSession
EnterClone(cr) ==
  Enter("CloneAndConverge",
        [NoReq EXCEPT !.name = cr.Name, !.source = cr.Source,
                      !.desiredRaw = cr.DesiredState,
                      !.desired = IF cr.DesiredState = <<>> THEN S_STOPPED
                                                            ELSE cr.DesiredState,
                      !.timeout = EffectiveTimeout(cr.Timeout)],
        IF TrimSpace(cr.Name) = <<>> THEN "NameRequired"
        ELSE IF TrimSpace(cr.Source) = <<>> THEN "SourceRequired" ELSE "")

CloneAndConverge ==
  \/ /\ PC = "idle"
     /\ \E cr \in CloneRequests : EnterClone(cr)
     /\ UNCHANGED <<opts, round, prev, resVars, parseVars>>
  \/ /\ PC = "cac"
     /\ CallFn("fm", "cac_ostype")
     /\ UNCHANGED <<frame, calls, err, st, out, mstate, changed>>
  \/ /\ PC = "cac_ostype"
     /\ IF err # "" THEN Return(err) /\ UNCHANGED calls
                    ELSE RemoteCall("GetOSTypeId", "cac_create")
     /\ UNCHANGED <<frame, st, out, mstate, changed>>
  \/ /\ PC = "cac_create"
     /\ RemoteCall("CreateMachine", "cac_clone")
     /\ UNCHANGED <<frame, st, out, mstate, changed>>
  \/ /\ PC = "cac_clone"
     /\ \E ok \in BOOLEAN :
          /\ Called(Call("CloneTo", ok))
          /\ IF ok
               THEN CallFn("wp_start", "cac_register") /\ progKind' = "clone" /\ UNCHANGED err
               ELSE Return("CloneTo") /\ UNCHANGED progKind
     /\ UNCHANGED <<natRules, opts, usedPorts, sel, ppc, op, req, result, now, deadline,
                    cancelled, polls, round, prev, resVars, parseVars, st, out, mstate, changed>>
  \/ /\ PC = "cac_register"
     /\ IF err # "" THEN Return(err) /\ UNCHANGED calls
                    ELSE RemoteCall("RegisterMachine", "cac_getid")
     /\ UNCHANGED <<frame, st, out, mstate, changed>>
  \/ /\ PC = "cac_getid"
     /\ \E ok \in BOOLEAN :
          /\ Called([Call("GetMachineId", ok) EXCEPT !.ret = IF ok THEN "uuid" ELSE ""])
          /\ out' = [out EXCEPT !.uuid = IF ok THEN "uuid" ELSE ""]
          /\ IF ok THEN CallFn("cs", "cac_ret") /\ UNCHANGED err
                   ELSE Return("GetMachineId")
     /\ UNCHANGED <<frame, st, mstate, changed>>
  \/ /\ PC = "cac_ret"
     /\ out' = [out EXCEPT !.state = st]
     /\ Return(err)
     /\ UNCHANGED <<frame, calls, st, mstate, changed>>

GetMachineInfoByID ==
  \/ /\ PC = "idle"
     /\ Enter("GetMachineInfoByID", NoReq, "")
     /\ UNCHANGED <<opts, round, prev, resVars, parseVars>>
  \/ /\ PC = "gmi"
     /\ CallFn("fm", "gmi_getid")
     /\ UNCHANGED <<frame, calls, err, st, out, mstate, changed>>
  \/ /\ PC = "gmi_getid"
     /\ IF err # ""
          THEN Return(err) /\ UNCHANGED <<calls, out>>
          ELSE \E ok \in BOOLEAN :
                 /\ Called([Call("GetMachineId", ok) EXCEPT !.ret = IF ok THEN "uuid" ELSE ""])
                 /\ out' = [out EXCEPT !.uuid = IF ok THEN "uuid" ELSE ""]
                 /\ IF ok THEN Goto("gmi_getname") /\ UNCHANGED err
                          ELSE Return("GetMachineId")
     /\ UNCHANGED <<frame, st, mstate, changed>>
  \/ /\ PC = "gmi_getname"
     /\ \E ok \in BOOLEAN :
          /\ Called([Call("GetMachineName", ok) EXCEPT !.ret = IF ok THEN "vm" ELSE ""])
          /\ out' = [out EXCEPT !.name = IF ok THEN "vm" ELSE ""]
          /\ IF ok THEN Goto("gmi_getstate") /\ UNCHANGED err
                   ELSE Return("GetMachineName")
     /\ UNCHANGED <<frame, st, mstate, changed>>
  \/ /\ PC = "gmi_getstate"
     /\ \E ok \in BOOLEAN :
          /\ Called([Call("GetMachineState", ok) EXCEPT !.ret = IF ok THEN mstate ELSE ""])
          /\ out' = [out EXCEPT !.state = IF ok THEN mstate ELSE ""]
          /\ Return(IF ok THEN "" ELSE "GetMachineState")
     /\ UNCHANGED <<frame, st, mstate, changed>>

GetStateByID ==
  \/ /\ PC = "idle"
     /\ Enter("GetStateByID", NoReq, "")
     /\ UNCHANGED <<opts, round, prev, resVars, parseVars>>
  \/ /\ PC = "gs"
     /\ CallFn("fm", "gs_getstate")
     /\ UNCHANGED <<frame, calls, err, st, out, mstate, changed>>
  \/ /\ PC = "gs_getstate"
     /\ IF err # ""
          THEN Return(err) /\ UNCHANGED <<calls, out>>
          ELSE \E ok \in BOOLEAN :
                 /\ Called([Call("GetMachineState", ok) EXCEPT !.ret = IF ok THEN mstate ELSE ""])
                 /\ out' = [out EXCEPT !.state = IF ok THEN mstate ELSE @]
                 /\ Return(IF ok THEN "" ELSE "GetMachineState")
     /\ UNCHANGED <<frame, st, mstate, changed>>

ConvergeStateByIDUnvalidated ==
  \/ /\ PC = "idle"
     /\ \E d \in DesiredInputs, t \in Timeouts :
          Enter("ConvergeStateByID",
                [NoReq EXCEPT !.desiredRaw = d, !.desired = ToLower(TrimSpace(d)),
                              !.timeout = EffectiveTimeout(t)],
                "")
     /\ UNCHANGED <<opts, round, prev, resVars, parseVars>>
  \/ /\ PC = "csb"
     /\ CallFn("fm", "csb_conv")
     /\ UNCHANGED <<frame, calls, err, st, out, mstate, changed>>
  \/ /\ PC = "csb_conv"
     /\ IF err # "" THEN Return(err) ELSE CallFn("cs", "csb_ret") /\ UNCHANGED err
     /\ UNCHANGED <<frame, calls, st, out, mstate, changed>>
  \/ /\ PC = "csb_ret"
     /\ out' = [out EXCEPT !.state = st]
     /\ Return(err)
     /\ UNCHANGED <<frame, calls, st, mstate, changed>>

ConvergeStateByID ==
  \/ /\ PC = "idle"
     /\ \E d \in DesiredInputs, t \in Timeouts :
          LET desiredState == ToLower(TrimSpace(d))
          IN  Enter("ConvergeStateByID",
                    [NoReq EXCEPT !.desiredRaw = d, !.desired = desiredState,
                                  !.timeout = EffectiveTimeout(t)],
                    IF desiredState # S_STARTED /\ desiredState # S_STOPPED
                      THEN "InvalidDesiredState" ELSE "")
     /\ UNCHANGED <<opts, round, prev, resVars, parseVars>>
  \/ /\ PC = "csb"
     /\ CallFn("fm", "csb_conv")
     /\ UNCHANGED <<frame, calls, err, st, out, mstate, changed>>
  \/ /\ PC = "csb_conv"
     /\ IF err # "" THEN Return(err) ELSE CallFn("cs", "csb_ret") /\ UNCHANGED err
     /\ UNCHANGED <<frame, calls, st, out, mstate, changed>>
  \/ /\ PC = "csb_ret"
     /\ out' = [out EXCEPT !.state = st]
     /\ Return(err)
     /\ UNCHANGED <<frame, calls, st, mstate, changed>>

\* the media references UnregisterMachine returns: none, or some
MediaRefs == {"", "media"}

DeleteByIDStrict ==
  \/ /\ PC = "idle"
     /\ \E t \in Timeouts :
          Enter("DeleteByID", [NoReq EXCEPT !.timeout = EffectiveTimeout(t)], "")
     /\ UNCHANGED <<opts, round, prev, resVars, parseVars>>
  \/ /\ PC = "del"
     /\ CallFn("fm", "del_poweroff")
     /\ UNCHANGED <<frame, calls, err, st, out, mstate, changed>>
  \/ /\ PC = "del_poweroff"
     /\ IF err # "" THEN Return(err) ELSE CallFn("epo", "del_unregister") /\ UNCHANGED err
     /\ UNCHANGED <<frame, calls, st, out, mstate, changed>>
  \/ /\ PC = "del_unregister"
     /\ err # ""
     /\ Return(err)
     /\ UNCHANGED <<frame, calls, st, out, mstate, changed>>
  \/ /\ PC = "del_unregister"
     /\ err = ""
     /\ \E ok \in BOOLEAN, mediaRefs \in MediaRefs :
          /\ ok \/ mediaRefs = ""
          /\ Called([Call("UnregisterMachine", ok) EXCEPT !.ret = mediaRefs])
          /\ IF ok THEN Goto("del_config") /\ err' = "" ELSE Return("UnregisterMachine")
     /\ UNCHANGED <<frame, st, out, mstate, changed>>
  \/ /\ PC = "del_config"
     /\ \E ok \in BOOLEAN :
          /\ Called([Call("DeleteConfig", ok) EXCEPT !.ret = calls[Len(calls)].ret])
          /\ IF ok
               THEN CallFn("wp_start", "del_ret") /\ progKind' = "delete" /\ UNCHANGED err
               ELSE Return("DeleteConfig") /\ UNCHANGED progKind
     /\ UNCHANGED <<natRules, opts, usedPorts, sel, ppc, op, req, result, now, deadline,
                    cancelled, polls, round, prev, resVars, parseVars, st, out, mstate, changed>>
  \/ /\ PC = "del_ret"
     /\ Return(err)
     /\ UNCHANGED <<frame, calls, st, out, mstate, changed>>

\* the call trace entry of DeleteConfig carries the media references it was given
DeleteByID ==
  \/ /\ PC = "idle"
     /\ \E t \in Timeouts :
          Enter("DeleteByID", [NoReq EXCEPT !.timeout = EffectiveTimeout(t)], "")
     /\ UNCHANGED <<opts, round, prev, resVars, parseVars>>
  \/ /\ PC = "del"
     /\ CallFn("fm", "del_poweroff")
     /\ UNCHANGED <<frame, calls, err, st, out, mstate, changed>>
  \/ /\ PC = "del_poweroff"
     /\ IF err # "" THEN Return(err) ELSE CallFn("epo", "del_unregister") /\ UNCHANGED err
     /\ UNCHANGED <<frame, calls, st, out, mstate, changed>>
  \/ /\ PC = "del_unregister"
     /\ \E ok \in BOOLEAN, mediaRefs \in MediaRefs :
          /\ ok \/ mediaRefs = ""
          /\ Called([Call("UnregisterMachine", ok) EXCEPT !.ret = mediaRefs])
          /\ IF ok THEN Goto("del_config") /\ err' = "" ELSE Return("UnregisterMachine")
     /\ UNCHANGED <<frame, st, out, mstate, changed>>
  \/ /\ PC = "del_config"
     /\ \E ok \in BOOLEAN :
          /\ Called([Call("DeleteConfig", ok) EXCEPT !.ret = calls[Len(calls)].ret])
          /\ IF ok
               THEN CallFn("wp_start", "del_ret") /\ progKind' = "delete" /\ UNCHANGED err
               ELSE Return("DeleteConfig") /\ UNCHANGED progKind
     /\ UNCHANGED <<natRules, opts, usedPorts, sel, ppc, op, req, result, now, deadline,
                    cancelled, polls, round, prev, resVars, parseVars, st, out, mstate, changed>>
  \/ /\ PC = "del_ret"
     /\ Return(err)
     /\ UNCHANGED <<frame, calls, st, out, mstate, changed>>

(***************************************************************************)
(* Public operations on NAT port-forward rules.  They act on the adapter   *)
(* NatPlace of the remote instance.                                        *)
(***************************************************************************)
NatPlace  == <<"m1", 0>>
RuleNames == {"ssh", "dns"}

L_NOTFOUND       == <<"n", "o", "t", "f", "o", "u", "n", "d">>
L_NOT_FOUND      == <<"n", "o", "t", " ", "f", "o", "u", "n", "d">>
L_DOES_NOT_EXIST == <<"d", "o", "e", "s", " ", "n", "o", "t", " ", "e", "x", "i", "s", "t">>

HasRule(list, name) == \E i \in DOMAIN list : list[i].Name = name

\* for _, r := range redirects { if r.Name == name { ...; break } }
\* the first redirect of the list, whatever its name
FirstListed(list, name) ==
  IF list = <<>> THEN [found |-> FALSE, port |-> 0]
  ELSE [found |-> TRUE, port |-> Head(list).HostPort]

RECURSIVE FirstNamed(_, _)
FirstNamed(list, name) ==
  IF list = <<>> THEN [found |-> FALSE, port |-> 0]
  ELSE IF Head(list).Name = name THEN [found |-> TRUE, port |-> Head(list).HostPort]
  ELSE FirstNamed(Tail(list), name)

RECURSIVE WithoutRule(_, _)
WithoutRule(list, name) ==
  IF list = <<>> THEN <<>>
  ELSE IF Head(list).Name = name THEN WithoutRule(Tail(list), name)
  ELSE <<Head(list)>> \o WithoutRule(Tail(list), name)

CreateNATPortForward ==
  \/ /\ PC = "idle"
     /\ \E n \in RuleNames :
          Enter("CreateNATPortForward", [NoReq EXCEPT !.rule = n, !.hostPort = 1], "")
     /\ UNCHANGED <<opts, round, prev, resVars, parseVars>>
  \/ /\ PC = "cnat"
     /\ CallFn("fm", "cnat_sess")
     /\ UNCHANGED <<frame, calls, err, st, out, mstate, changed>>
  \/ /\ PC = "cnat_sess"
     /\ IF err # "" THEN Return(err) /\ UNCHANGED calls
                    ELSE RemoteCall("GetSessionObject", "cnat_lock")
     /\ UNCHANGED <<frame, st, out, mstate, changed>>
  \/ /\ PC = "cnat_lock"
     /\ \E ok \in BOOLEAN :
          /\ Called([Call("LockMachine", ok) EXCEPT !.ret = "sessObj"])
          /\ IF ok THEN Goto("cnat_mutable") /\ UNCHANGED err ELSE Return("LockMachine")
     /\ UNCHANGED <<frame, st, out, mstate, changed>>
  \/ /\ PC = "cnat_mutable"
     /\ RemoteCallDeferred("GetMutableMachine", "cnat_adapter", "cnat_unlock")
     /\ UNCHANGED <<frame, st, out, mstate, changed>>
  \/ /\ PC = "cnat_adapter"
     /\ RemoteCallDeferred("GetNetworkAdapter", "cnat_engine", "cnat_unlock")
     /\ UNCHANGED <<frame, st, out, mstate, changed>>
  \/ /\ PC = "cnat_engine"
     /\ RemoteCallDeferred("GetNATEngine", "cnat_add", "cnat_unlock")
     /\ UNCHANGED <<frame, st, out, mstate, changed>>
  \/ /\ PC = "cnat_add"
     /\ \E ok \in IF HasRule(natRules[NatPlace], req.rule) THEN {FALSE} ELSE BOOLEAN :
          /\ Called(Call("AddNATRedirect", ok))
          /\ IF ok THEN Goto("cnat_save") /\ UNCHANGED err
                   ELSE Goto("cnat_unlock") /\ err' = "AddNATRedirect"
     /\ UNCHANGED <<frame, st, out, mstate, changed>>
  \/ /\ PC = "cnat_save"
     /\ \E ok \in BOOLEAN :
          /\ Called(Call("SaveSettings", ok))
          /\ Goto("cnat_unlock")
          /\ err' = IF ok THEN "" ELSE "SaveSettings"
          /\ natRules' =
               IF ok
                 THEN [natRules EXCEPT ![NatPlace] =
                         Append(@, [Name |-> req.rule, HostPort |-> req.hostPort,
                                    HostIP |-> IP_ANY])]
                 ELSE natRules
     /\ UNCHANGED <<opts, usedPorts, sel, ppc, op, req, result, progKind, now, deadline,
                    cancelled, polls, round, prev, resVars, parseVars, st, out, mstate, changed>>
  \/ /\ PC = "cnat_unlock"
     /\ \E ok \in BOOLEAN :
          Called([Call("UnlockSession", ok) EXCEPT !.ret = "sessObj"])
     /\ Return(err)
     /\ UNCHANGED <<frame, st, out, mstate, changed>>

ReadNATPortForward ==
  \/ /\ PC = "idle"
     /\ \E n \in RuleNames :
          Enter("ReadNATPortForward", [NoReq EXCEPT !.rule = n], "")
     /\ UNCHANGED <<opts, round, prev, resVars, parseVars>>
  \/ /\ PC = "rnat"
     /\ CallFn("fm", "rnat_adapter")
     /\ UNCHANGED <<frame, calls, err, st, out, mstate, changed>>
  \/ /\ PC = "rnat_adapter"
     /\ IF err # "" THEN Return(err) /\ UNCHANGED calls
                    ELSE RemoteCall("GetNetworkAdapter", "rnat_engine")
     /\ UNCHANGED <<frame, st, out, mstate, changed>>
  \/ /\ PC = "rnat_engine"
     /\ RemoteCall("GetNATEngine", "rnat_redirects")
     /\ UNCHANGED <<frame, st, out, mstate, changed>>
  \/ /\ PC = "rnat_redirects"
     /\ \E ok \in BOOLEAN :
          LET hit == FirstNamed(natRules[NatPlace], req.rule)
          IN  /\ Called(Call("GetNATRedirects", ok))
              /\ out' = IF ok /\ hit.found
                          THEN [out EXCEPT !.found = TRUE, !.rule = req.rule, !.port = hit.port]
                          ELSE out
              /\ Return(IF ok THEN "" ELSE "GetNATRedirects")
     /\ UNCHANGED <<frame, st, mstate, changed>>

\* what the remote RemoveNATRedirect may answer
RemoveOutcomes(present) ==
  {[ok |-> TRUE, text |-> <<>>], [ok |-> FALSE, text |-> T_REFUSED]}
  \cup (IF present THEN {}
        ELSE {[ok |-> FALSE, text |-> T_NOT_FOUND], [ok |-> FALSE, text |-> T_DOES_NOT_EXIST]})

DeleteNATPortForward ==
  \/ /\ PC = "idle"
     /\ \E n \in RuleNames :
          Enter("DeleteNATPortForward", [NoReq EXCEPT !.rule = n], "")
     /\ UNCHANGED <<opts, round, prev, resVars, parseVars>>
  \/ /\ PC = "dnat"
     /\ CallFn("fm", "dnat_sess")
     /\ UNCHANGED <<frame, calls, err, st, out, mstate, changed>>
  \/ /\ PC = "dnat_sess"
     /\ IF err # ""
          THEN Return(IF IsNotFound(err) THEN "" ELSE err) /\ UNCHANGED calls
          ELSE RemoteCall("GetSessionObject", "dnat_lock")
     /\ UNCHANGED <<frame, st, out, mstate, changed>>
  \/ /\ PC = "dnat_lock"
     /\ \E ok \in BOOLEAN :
          /\ Called([Call("LockMachine", ok) EXCEPT !.ret = "sessObj"])
          /\ IF ok THEN Goto("dnat_mutable") /\ UNCHANGED err ELSE Return("LockMachine")
     /\ UNCHANGED <<frame, st, out, mstate, changed>>
  \/ /\ PC = "dnat_mutable"
     /\ RemoteCallDeferred("GetMutableMachine", "dnat_adapter", "dnat_unlock")
     /\ UNCHANGED <<frame, st, out, mstate, changed>>
  \/ /\ PC = "dnat_adapter"
     /\ RemoteCallDeferred("GetNetworkAdapter", "dnat_engine", "dnat_unlock")
     /\ UNCHANGED <<frame, st, out, mstate, changed>>
  \/ /\ PC = "dnat_engine"
     /\ RemoteCallDeferred("GetNATEngine", "dnat_remove", "dnat_unlock")
     /\ UNCHANGED <<frame, st, out, mstate, changed>>
  \/ /\ PC = "dnat_remove"
     /\ \E ro \in RemoveOutcomes(HasRule(natRules[NatPlace], req.rule)) :
          LET errLower == ToLower(ro.text)
          IN  /\ Called([Call("RemoveNATRedirect", ro.ok) EXCEPT !.text = ro.text])
              /\ IF ~ro.ok /\ ~Contains(errLower, L_NOT_FOUND)
                           /\ ~Contains(errLower, L_DOES_NOT_EXIST)
                   THEN Goto("dnat_unlock") /\ err' = "RemoveNATRedirect"
                   ELSE Goto("dnat_save") /\ UNCHANGED err
     /\ UNCHANGED <<frame, st, out, mstate, changed>>
  \/ /\ PC = "dnat_save"
     /\ \E ok \in BOOLEAN :
          /\ Called(Call("SaveSettings", ok))
          /\ Goto("dnat_unlock")
          /\ err' = IF ok THEN "" ELSE "SaveSettings"
          /\ natRules' =
               IF ok /\ calls[Len(calls)].ok
                 THEN [natRules EXCEPT ![NatPlace] = WithoutRule(@, req.rule)]
                 ELSE natRules
     /\ UNCHANGED <<opts, usedPorts, sel, ppc, op, req, result, progKind, now, deadline,
                    cancelled, polls, round, prev, resVars, parseVars, st, out, mstate, changed>>
  \/ /\ PC = "dnat_unlock"
     /\ \E ok \in BOOLEAN :
          Called([Call("UnlockSession", ok) EXCEPT !.ret = "sessObj"])
     /\ Return(err)
     /\ UNCHANGED <<frame, st, out, mstate, changed>>

ClientAllocOpts ==
  [MinPort : {0}, MaxPort : {0, 1}, HostIP : {IP_LOOP},
   Scope : {HostIPScopeAny, HostIPScopeExact}, IncludeNATNetworks : {TRUE}]

\* the session closure runs AllocatePort; its enumeration calls are recorded as
\* GetMachines followed by one entry for the adapter and network loops
AllocateNATHostPort ==
  \/ /\ PC = "idle"
     /\ \E o \in ClientAllocOpts :
          /\ opts' = o
          /\ Enter("AllocateNATHostPort", NoReq, "")
     /\ UNCHANGED <<round, prev, resVars, parseVars>>
  \/ /\ PC = "anat"
     /\ \E oc \in EnumOutcomes :
          LET r == CollectUsedPorts(natRules, opts.IncludeNATNetworks, oc)
              s == SelectAvailablePort(r.used, opts)
          IN  IF r.err # ""
                THEN /\ Called(Call("GetMachines", FALSE))
                     /\ Return(r.err)
                     /\ UNCHANGED <<usedPorts, sel, out>>
                ELSE /\ calls' = calls \o <<Call("GetMachines", TRUE), Call("EnumerateNAT", TRUE)>>
                     /\ usedPorts' = r.used
                     /\ sel' = s
                     /\ out' = [out EXCEPT !.port = s.port]
                     /\ Return(s.err)
     /\ UNCHANGED <<natRules, opts, ppc, op, req, result, progKind, now, deadline,
                    cancelled, polls, round, prev, resVars, parseVars, st, mstate, changed>>

GetAllNATRedirects ==
  \/ /\ PC = "idle"
     /\ Enter("GetAllNATRedirects", NoReq, "")
     /\ UNCHANGED <<opts, round, prev, resVars, parseVars>>
  \/ /\ PC = "gnat"
     /\ CallFn("fm", "gnat_adapter")
     /\ UNCHANGED <<frame, calls, err, st, out, mstate, changed>>
  \/ /\ PC = "gnat_adapter"
     /\ IF err # "" THEN Return(err) /\ UNCHANGED calls
                    ELSE RemoteCall("GetNetworkAdapter", "gnat_engine")
     /\ UNCHANGED <<frame, st, out, mstate, changed>>
  \/ /\ PC = "gnat_engine"
     /\ RemoteCall("GetNATEngine", "gnat_redirects")
     /\ UNCHANGED <<frame, st, out, mstate, changed>>
  \/ /\ PC = "gnat_redirects"
     /\ \E ok \in BOOLEAN :
          /\ Called(Call("GetNATRedirects", ok))
          /\ out' = IF ok THEN [out EXCEPT !.list = natRules[NatPlace]] ELSE out
          /\ Return(IF ok THEN "" ELSE "GetNATRedirects")
     /\ UNCHANGED <<frame, st, mstate, changed>>

(***************************************************************************)
(* The NAT port-forward resource.  A callback calls Client operations one  *)
(* after the other, each in a session of its own; it resumes when the      *)
(* operation has returned (PC = "done").                                   *)
(***************************************************************************)
\* the plans and prior states the callbacks are invoked with
Plans ==
  [Name : {"ssh"}, HostPort : {0, 1}, AutoHostPort : BOOLEAN,
   AutoHostPortMin : {1}, AutoHostPortMax : {1}]
PriorStates == [set : {TRUE}, Name : {"ssh"}, HostPort : {1}, EffectiveHostPort : {1}]

\* the host port another client gives a rule it rewrites
ForeignPort == 2

\* what a callback step that calls no Client operation leaves alone
Stay ==
  UNCHANGED <<natRules, usedPorts, sel, ppc, op, req, calls, err, st, out, result,
              mstate, progKind, now, deadline, cancelled, polls, changed>>

\* resp.Diagnostics.AddError(d, ...); return
Fail(d) ==
  /\ diags' = d
  /\ cpc' = "end"
  /\ stack' = <<"done">>
  /\ Stay

\* the callback returns without a diagnostic
Finish ==
  /\ cpc' = "end"
  /\ stack' = <<"done">>
  /\ UNCHANGED diags
  /\ Stay

\* opts := vbox.PortAllocatorOptions{...}
PlanOpts(p) ==
  [MinPort |-> p.AutoHostPortMin, MaxPort |-> p.AutoHostPortMax, HostIP |-> IP_ANY,
   Scope |-> HostIPScopeAny, IncludeNATNetworks |-> TRUE]

\* if hostPort == 0 { AddError; return }; ...; r.client.CreateNATPortForward(ctx, rule)
CreateRule(p, hp) ==
  IF hp = 0
    THEN Fail("Invalid host port")
    ELSE /\ Enter("CreateNATPortForward", [NoReq EXCEPT !.rule = p.Name, !.hostPort = hp], "")
         /\ cpc' = "create"
         /\ UNCHANGED diags

\* the same, the allocator asked whenever auto_host_port is set
ChoosePortAlwaysAuto(p) ==
  /\ hostPort' = p.HostPort
  /\ IF p.AutoHostPort
       THEN /\ opts' = PlanOpts(p)
            /\ Enter("AllocateNATHostPort", NoReq, "")
            /\ cpc' = "allocate"
            /\ UNCHANGED diags
       ELSE /\ CreateRule(p, p.HostPort)
            /\ UNCHANGED opts

\* hostPort := uint16(plan.HostPort.ValueInt64()) and what follows, up to the
\* first Client call
ChoosePort(p) ==
  /\ hostPort' = p.HostPort
  /\ IF p.AutoHostPort /\ p.HostPort = 0
       THEN /\ opts' = PlanOpts(p)
            /\ Enter("AllocateNATHostPort", NoReq, "")
            /\ cpc' = "allocate"
            /\ UNCHANGED diags
       ELSE /\ CreateRule(p, p.HostPort)
            /\ UNCHANGED opts

\* the same, the state taking its effective port from the port asked for
ApplyPlanTrusting(cb) ==
  \/ /\ PC = "done" /\ callback = cb /\ cpc = "allocate"
     /\ IF result.err # ""
          THEN Fail("Failed to allocate host port") /\ UNCHANGED hostPort
          ELSE hostPort' = result.val.port /\ CreateRule(plan, result.val.port)
     /\ UNCHANGED <<opts, round, prev, runs, parseVars, callback, plan, prior, state>>
  \/ /\ PC = "done" /\ callback = cb /\ cpc = "create"
     /\ IF result.err # ""
          THEN Fail("Failed to create NAT port forward rule")
          ELSE /\ Enter("ReadNATPortForward", [NoReq EXCEPT !.rule = plan.Name], "")
               /\ cpc' = "readback"
               /\ UNCHANGED diags
     /\ UNCHANGED <<opts, round, prev, runs, parseVars, callback, plan, prior, hostPort, state>>
  \/ /\ PC = "done" /\ callback = cb /\ cpc = "readback"
     /\ IF result.err # ""
          THEN Fail("Failed to verify NAT port forward rule") /\ UNCHANGED state
          ELSE /\ state' = [set |-> TRUE, Name |-> plan.Name, HostPort |-> hostPort,
                             EffectiveHostPort |-> hostPort]
               /\ Finish
     /\ UNCHANGED <<opts, round, prev, runs, parseVars, callback, plan, prior, hostPort>>

\* Create and Update after the port is chosen: the allocation returns, the
\* rule is created, it is read back, the state is set
ApplyPlan(cb) ==
  \/ /\ PC = "done" /\ callback = cb /\ cpc = "allocate"
     /\ IF result.err # ""
          THEN Fail("Failed to allocate host port") /\ UNCHANGED hostPort
          ELSE hostPort' = result.val.port /\ CreateRule(plan, result.val.port)
     /\ UNCHANGED <<opts, round, prev, runs, parseVars, callback, plan, prior, state>>
  \/ /\ PC = "done" /\ callback = cb /\ cpc = "create"
     /\ IF result.err # ""
          THEN Fail("Failed to create NAT port forward rule")
          ELSE /\ Enter("ReadNATPortForward", [NoReq EXCEPT !.rule = plan.Name], "")
               /\ cpc' = "readback"
               /\ UNCHANGED diags
     /\ UNCHANGED <<opts, round, prev, runs, parseVars, callback, plan, prior, hostPort, state>>
  \/ /\ PC = "done" /\ callback = cb /\ cpc = "readback"
     /\ IF result.err # ""
          THEN Fail("Failed to verify NAT port forward rule") /\ UNCHANGED state
          ELSE IF ~result.val.found
            THEN Fail("NAT port forward rule not found after creation") /\ UNCHANGED state
            ELSE /\ state' = [set |-> TRUE, Name |-> plan.Name, HostPort |-> hostPort,
                               EffectiveHostPort |-> result.val.port]
                 /\ Finish
     /\ UNCHANGED <<opts, round, prev, runs, parseVars, callback, plan, prior, hostPort>>

natPortForwardResourceCreate ==
  \/ /\ PC = "idle" /\ callback = "none"
     /\ \E p \in Plans :
          /\ callback' = "Create"
          /\ plan' = p
          /\ ChoosePort(p)
     /\ UNCHANGED <<round, prev, runs, parseVars, prior, state>>
  \/ ApplyPlan("Create")

natPortForwardResourceRead ==
  \/ /\ PC = "idle" /\ callback = "none"
     /\ \E s \in PriorStates :
          /\ callback' = "Read"
          /\ prior' = s
          /\ state' = s
          /\ Enter("ReadNATPortForward", [NoReq EXCEPT !.rule = s.Name], "")
     /\ cpc' = "read"
     /\ UNCHANGED <<opts, round, prev, runs, parseVars, plan, hostPort, diags>>
  \/ /\ PC = "done" /\ callback = "Read" /\ cpc = "read"
     /\ IF result.err # ""
          THEN IF IsNotFound(result.err)
                 THEN state' = NoState /\ Finish
                 ELSE Fail("Failed to read NAT port forward rule") /\ UNCHANGED state
          ELSE IF ~result.val.found
            THEN state' = NoState /\ Finish
            ELSE /\ state' = [state EXCEPT !.EffectiveHostPort = result.val.port]
                 /\ Finish
     /\ UNCHANGED <<opts, round, prev, runs, parseVars, callback, plan, prior, hostPort>>

\* the same, the new rule created before the old one is deleted
natPortForwardResourceUpdateCreateFirst ==
  \/ /\ PC = "idle" /\ callback = "none"
     /\ \E p \in Plans, s \in PriorStates :
          /\ callback' = "Update"
          /\ plan' = p
          /\ prior' = s
          /\ state' = s
          /\ ChoosePort(p)
     /\ UNCHANGED <<round, prev, runs, parseVars>>
  \/ ApplyPlan("Update")

natPortForwardResourceUpdate ==
  \/ /\ PC = "idle" /\ callback = "none"
     /\ \E p \in Plans, s \in PriorStates :
          /\ callback' = "Update"
          /\ plan' = p
          /\ prior' = s
          /\ state' = s
          /\ Enter("DeleteNATPortForward", [NoReq EXCEPT !.rule = s.Name], "")
     /\ cpc' = "delete"
     /\ UNCHANGED <<opts, round, prev, runs, parseVars, hostPort, diags>>
  \/ /\ PC = "done" /\ callback = "Update" /\ cpc = "delete"
     /\ IF result.err # "" /\ ~IsNotFound(result.err)
          THEN Fail("Failed to delete old NAT port forward rule") /\ UNCHANGED <<opts, hostPort>>
          ELSE ChoosePort(plan)
     /\ UNCHANGED <<round, prev, runs, parseVars, callback, plan, prior, state>>
  \/ ApplyPlan("Update")

RECURSIVE Rebound(_, _, _)
Rebound(list, name, port) ==
  IF list = <<>> THEN <<>>
  ELSE <<IF Head(list).Name = name THEN [Head(list) EXCEPT !.HostPort = port]
                                   ELSE Head(list)>>
       \o Rebound(Tail(list), name, port)

\* another client of the same VirtualBox instance rewrites or removes the rule
\* between the callback's CreateNATPortForward and its read-back
ExternalRuleChange ==
  /\ PC = "done"
  /\ callback \in {"Create", "Update"}
  /\ cpc = "create"
  /\ result.err = ""
  /\ HasRule(natRules[NatPlace], plan.Name)
  /\ \/ /\ FirstNamed(natRules[NatPlace], plan.Name).port # ForeignPort
        /\ natRules' = [natRules EXCEPT ![NatPlace] = Rebound(@, plan.Name, ForeignPort)]
     \/ natRules' = [natRules EXCEPT ![NatPlace] = WithoutRule(@, plan.Name)]
  /\ UNCHANGED <<opts, usedPorts, sel, ppc, clientVars, resVars, parseVars>>

(***************************************************************************)
(* The environment: the caller and the remote system.                      *)
(***************************************************************************)
\* the machine states the remote system is observed in
ObservedStates == {MachineStatePoweredOff, MachineStateRunning, MachineStatePaused}

\* the caller cancels the context; only waitProgress reads the context itself
Cancel ==
  /\ PC \in {"wp_start", "wp"}
  /\ ~cancelled
  /\ cancelled' = TRUE
  /\ UNCHANGED <<natRules, opts, usedPorts, sel, ppc, op, req, stack, calls, err, st,
                 out, result, mstate, progKind, now, deadline, polls, round, prev, resVars, parseVars, changed>>

\* the machine changes state on its own (guest shutdown, another client)
\* just before convergeState reads it
ExternalChange ==
  /\ PC \in {"cs", "cs_reread"}
  /\ err = ""
  /\ ~changed
  /\ \E s \in ObservedStates \ {mstate} : mstate' = s
  /\ changed' = TRUE
  /\ UNCHANGED <<natRules, opts, usedPorts, sel, ppc, op, req, stack, calls, err, st,
                 out, result, progKind, now, deadline, cancelled, polls, round, prev, resVars, parseVars>>

RepeatOps == {"ConvergeStateByID", "DeleteNATPortForward"}

\* the caller invokes the operation again with the same arguments
Repeat ==
  /\ PC = "done"
  /\ round = 1
  /\ op \in RepeatOps
  /\ calls # <<>>
  /\ result.err = ""
  /\ Enter(op, req, "")
  /\ round' = 2
  /\ prev' = result
  /\ UNCHANGED <<opts, resVars, parseVars>>

OneRule ==
  [NoRules EXCEPT ![NatPlace] = <<[Name |-> "ssh", HostPort |-> 0, HostIP |-> IP_ANY]>>]

\* an adapter with two rules, the one read or deleted by name not the first
TwoRules ==
  [NoRules EXCEPT ![NatPlace] = <<[Name |-> "dns", HostPort |-> 1, HostIP |-> IP_LAN],
                                  [Name |-> "ssh", HostPort |-> 0, HostIP |-> IP_ANY]>>]

Init ==
  /\ ClientIdle
  /\ ResourceIdle
  /\ runs = NoRuns
  /\ ParseIdle
  /\ opts = NoOpts
  /\ usedPorts = <<>>
  /\ sel = NoSel
  /\ ppc = "idle"
  /\ \/ mstate \in ObservedStates /\ natRules = NoRules
     \/ mstate = MachineStatePoweredOff /\ natRules \in {OneRule, TwoRules}

Next ==
  \/ CloneAndConverge
  \/ GetMachineInfoByID
  \/ GetStateByID
  \/ ConvergeStateByID
  \/ DeleteByID
  \/ CreateNATPortForward
  \/ ReadNATPortForward
  \/ DeleteNATPortForward
  \/ AllocateNATHostPort
  \/ GetAllNATRedirects
  \/ withSession
  \/ findMachine
  \/ waitProgress
  \/ convergeState
  \/ ensureRunning
  \/ ensurePoweredOff
  \/ Cancel
  \/ ExternalChange
  \/ Repeat

Spec == Init /\ [][Next]_vars

\* the same with the goroutine that runs waitProgress never starved: every
\* remote call it makes returns and its sleep ends
SpecLive == Init /\ [][Next]_vars /\ WF_vars(waitProgress)

(***************************************************************************)
(* Two applies in parallel, each running Create for a rule of its own with *)
(* auto_host_port.  A Client call is one step here: the calls of different *)
(* applies are separate sessions that the server takes in any order.       *)
(***************************************************************************)
RaceOpts ==
  [MinPort : {1}, MaxPort : {1, PortModulus - 1}, HostIP : {IP_ANY},
   Scope : {HostIPScopeAny, HostIPScopeExact}, IncludeNATNetworks : {TRUE}]

\* the enumeration of one allocation left nothing out
Complete(oc) == oc.machinesOK /\ oc.natNetworksOK /\ oc.skipped = {}

\* the same, the port another apply holds for a rule not yet created counted
\* as used
ApplyAllocateReserving(i) ==
  /\ runs[i].pc = "start"
  /\ \E oc \in EnumOutcomes :
       LET r == CollectUsedPorts(natRules, opts.IncludeNATNetworks, oc)
           held == {[Port |-> runs[j].port, HostIP |-> IP_ANY] :
                      j \in {k \in Applies : k # i /\ runs[k].pc = "allocated"}}
           heldList == IF held = {} THEN <<>> ELSE <<CHOOSE h \in held : TRUE>>
           s == SelectAvailablePort(r.used \o heldList, opts)
       IN  runs' = [runs EXCEPT ![i] =
                      IF r.err # "" \/ s.err # "" \/ s.port = 0
                        THEN [@ EXCEPT !.pc = "failed"]
                        ELSE [@ EXCEPT !.pc = "allocated", !.port = s.port,
                                       !.full = Complete(oc)]]
  /\ UNCHANGED <<portVars, clientVars, parseVars, callback, cpc, plan, prior, hostPort, state, diags>>

\* allocatedPort, err := r.client.AllocateNATHostPort(ctx, opts); hostPort == 0 fails
ApplyAllocate(i) ==
  /\ runs[i].pc = "start"
  /\ \E oc \in EnumOutcomes :
       LET r == CollectUsedPorts(natRules, opts.IncludeNATNetworks, oc)
           s == SelectAvailablePort(r.used, opts)
       IN  runs' = [runs EXCEPT ![i] =
                      IF r.err # "" \/ s.err # "" \/ s.port = 0
                        THEN [@ EXCEPT !.pc = "failed"]
                        ELSE [@ EXCEPT !.pc = "allocated", !.port = s.port,
                                       !.full = Complete(oc)]]
  /\ UNCHANGED <<portVars, clientVars, parseVars, callback, cpc, plan, prior, hostPort, state, diags>>

\* r.client.CreateNATPortForward(ctx, rule) with the allocated port
ApplyCreate(i) ==
  /\ runs[i].pc = "allocated"
  /\ \E ok \in IF HasRule(natRules[NatPlace], ApplyRule[i]) THEN {FALSE} ELSE BOOLEAN :
       IF ok
         THEN /\ natRules' = [natRules EXCEPT ![NatPlace] =
                               Append(@, [Name |-> ApplyRule[i], HostPort |-> runs[i].port,
                                          HostIP |-> IP_ANY])]
              /\ runs' = [runs EXCEPT ![i].pc = "created"]
         ELSE /\ runs' = [runs EXCEPT ![i].pc = "failed"]
              /\ UNCHANGED natRules
  /\ UNCHANGED <<opts, usedPorts, sel, ppc, clientVars, parseVars, callback, cpc, plan, prior,
                 hostPort, state, diags>>

\* readRule, err := r.client.ReadNATPortForward(...); the state is set
ApplyReadBack(i) ==
  /\ runs[i].pc = "created"
  /\ \E ok \in BOOLEAN :
       LET hit == FirstNamed(natRules[NatPlace], ApplyRule[i])
       IN  runs' = [runs EXCEPT ![i] =
                      IF ok /\ hit.found
                        THEN [@ EXCEPT !.pc = "done", !.effective = hit.port]
                        ELSE [@ EXCEPT !.pc = "failed"]]
  /\ UNCHANGED <<portVars, clientVars, parseVars, callback, cpc, plan, prior, hostPort, state, diags>>

InitRace ==
  /\ natRules \in Configs(1)
  /\ opts \in RaceOpts
  /\ usedPorts = <<>>
  /\ sel = NoSel
  /\ ppc = "idle"
  /\ mstate = MachineStatePoweredOff
  /\ ClientIdle
  /\ ResourceIdle
  /\ runs = [i \in Applies |-> [NoRun EXCEPT !.pc = "start"]]
  /\ ParseIdle

NextRace ==
  \E i \in Applies : ApplyAllocate(i) \/ ApplyCreate(i) \/ ApplyReadBack(i)

SpecRace == InitRace /\ [][NextRace]_vars

(***************************************************************************)
(* The same applies one after the other: an apply allocates only when the  *)
(* apply before it has created its rule or failed.                         *)
(***************************************************************************)
SequentialOpts ==
  {o \in [MinPort : {1, PortModulus - 1}, MaxPort : {1, PortModulus - 1}, HostIP : {IP_ANY},
          Scope : {HostIPScopeAny}, IncludeNATNetworks : {TRUE}] : o.MinPort <= o.MaxPort}

InitSequential ==
  /\ natRules \in Configs(1)
  /\ opts \in SequentialOpts
  /\ usedPorts = <<>>
  /\ sel = NoSel
  /\ ppc = "idle"
  /\ mstate = MachineStatePoweredOff
  /\ ClientIdle
  /\ ResourceIdle
  /\ runs = [i \in Applies |-> [NoRun EXCEPT !.pc = "start"]]
  /\ ParseIdle

NextSequential ==
  \E i \in Applies :
    \/ /\ \A j \in Applies : j < i => runs[j].pc \in {"created", "done", "failed"}
       /\ ApplyAllocate(i)
    \/ ApplyCreate(i)
    \/ ApplyReadBack(i)

SpecSequential == InitSequential /\ [][NextSequential]_vars

(***************************************************************************)
(* Parsing functions, applied to strings over a small alphabet.            *)
(***************************************************************************)
Digits == {"0", "1", "2", "3", "4", "5", "6", "7", "8", "9"}
DigitVal ==
  ("0" :> 0) @@ ("1" :> 1) @@ ("2" :> 2) @@ ("3" :> 3) @@ ("4" :> 4) @@
  ("5" :> 5) @@ ("6" :> 6) @@ ("7" :> 7) @@ ("8" :> 8) @@ ("9" :> 9)

\* the longest prefix of s made of characters of the set
RECURSIVE Prefix(_, _)
Prefix(s, set) ==
  IF s = <<>> \/ Head(s) \notin set THEN <<>> ELSE <<Head(s)>> \o Prefix(Tail(s), set)

Rest(s, n) == SubSeq(s, n + 1, Len(s))

\* the value of a string of decimal digits
RECURSIVE Decimal(_)
Decimal(s) ==
  IF s = <<>> THEN 0 ELSE 10 * Decimal(SubSeq(s, 1, Len(s) - 1)) + DigitVal[s[Len(s)]]

\* strings.Split(s, sep) for a separator of one character
RECURSIVE Split(_, _)
Split(s, sep) ==
  LET first == Prefix(s, {c \in {s[i] : i \in DOMAIN s} : c # sep})
  IN  IF Len(first) = Len(s) THEN <<s>>
      ELSE <<first>> \o Split(Rest(s, Len(first) + 1), sep)

\* fmt.Sscanf(s, "%d", &n): leading blanks are skipped, a sign is accepted,
\* the digits that follow are the number; what comes after them is not read
Sscanf_d(s) ==
  LET t      == Rest(s, Len(Prefix(s, {" ", "\t"})))
      signed == t # <<>> /\ Head(t) \in {"+", "-"}
      u      == IF signed THEN Tail(t) ELSE t
      digits == Prefix(u, Digits)
  IN  IF digits = <<>>
        THEN [err |-> "expected integer", n |-> 0]
        ELSE [err |-> "",
              n |-> IF signed /\ Head(t) = "-" THEN 0 - Decimal(digits) ELSE Decimal(digits)]

\* the state attributes ImportState sets
NoAttrs == [set |-> FALSE, machine_id |-> <<>>, adapter_slot |-> 0, name |-> <<>>, id |-> <<>>]

ImportState(id) ==
  LET parts == Split(id, ":")
  IN  IF Len(parts) # 3
        THEN [err |-> "Invalid import ID", val |-> NoAttrs]
        ELSE LET scan == Sscanf_d(parts[2])
             IN  IF scan.err # "" \/ scan.n < 0 \/ scan.n > 7
                   THEN [err |-> "Invalid adapter slot", val |-> NoAttrs]
                   ELSE [err |-> "",
                         val |-> [set |-> TRUE, machine_id |-> parts[1],
                                  adapter_slot |-> scan.n, name |-> parts[3], id |-> id]]

\* the import identifiers tried: every string of at most MaxIDLen characters
MaxIDLen == 5
IDChars  == {"m", ":", "7", "8", " ", "-"}

ImportStep ==
  /\ fpc = "ready"
  /\ output' = ImportState(input)
  /\ fpc' = "returned"
  /\ UNCHANGED <<portVars, clientVars, resVars, input>>

InitImport ==
  /\ natRules = NoRules
  /\ opts = NoOpts
  /\ usedPorts = <<>>
  /\ sel = NoSel
  /\ ppc = "idle"
  /\ mstate = MachineStatePoweredOff
  /\ ClientIdle
  /\ ResourceIdle
  /\ runs = NoRuns
  /\ input \in SeqsUpTo(IDChars, MaxIDLen)
  /\ fpc = "ready"
  /\ output = [err |-> "", val |-> NoAttrs]

SpecImport == InitImport /\ [][ImportStep]_vars

(***************************************************************************)
(* parseTimeout.  Durations are counted in milliseconds; the strings tried *)
(* have no fraction and no unit below the millisecond.                     *)
(***************************************************************************)
Millisecond == 1
Second      == 1000 * Millisecond
Minute      == 60 * Second
Hour        == 60 * Minute

\* time's unitMap, the units of a millisecond and more
UnitMap ==
  (<<"m", "s">> :> Millisecond) @@ (<<"s">> :> Second) @@ (<<"m">> :> Minute) @@
  (<<"h">> :> Hour)

\* the strings tried: every string of at most MaxDurLen characters
MaxDurLen == 4
DurChars  == {"5", "0", "m", "s", "-", " "}

\* the loop of time.ParseDuration: number, unit, number, unit, ...
RECURSIVE ParseTerms(_)
ParseTerms(s) ==
  IF s = <<>> THEN [err |-> "", d |-> 0]
  ELSE LET digits == Prefix(s, Digits)
           afterN == Rest(s, Len(digits))
           unit   == Prefix(afterN, {c \in {afterN[i] : i \in DOMAIN afterN} :
                                       c \notin Digits /\ c # "."})
       IN  IF digits = <<>> THEN [err |-> "invalid duration", d |-> 0]
           ELSE IF unit = <<>> THEN [err |-> "missing unit", d |-> 0]
           ELSE IF unit \notin DOMAIN UnitMap THEN [err |-> "unknown unit", d |-> 0]
           ELSE LET more == ParseTerms(Rest(afterN, Len(unit)))
                IN  IF more.err # "" THEN more
                    ELSE [err |-> "", d |-> Decimal(digits) * UnitMap[unit] + more.d]

\* time.ParseDuration
ParseDuration(s) ==
  LET signed == s # <<>> /\ Head(s) \in {"-", "+"}
      t      == IF signed THEN Tail(s) ELSE s
  IN  IF t = <<"0">> THEN [err |-> "", d |-> 0]
      ELSE IF t = <<>> THEN [err |-> "invalid duration", d |-> 0]
      ELSE LET p == ParseTerms(t)
           IN  IF p.err # "" THEN p
               ELSE [err |-> "", d |-> IF signed /\ Head(s) = "-" THEN 0 - p.d ELSE p.d]

\* the same without the check of the sign of the duration
parseTimeoutUnchecked(s) ==
  IF TrimSpace(s) = <<>> THEN 20 * Minute
  ELSE LET p == ParseDuration(s)
       IN  IF p.err # "" THEN 20 * Minute ELSE p.d

parseTimeout(s) ==
  IF TrimSpace(s) = <<>> THEN 20 * Minute
  ELSE LET p == ParseDuration(s)
       IN  IF p.err # "" THEN 20 * Minute
           ELSE IF p.d <= 0 THEN 20 * Minute
           ELSE p.d

TimeoutStep ==
  /\ fpc = "ready"
  /\ output' = [err |-> "", val |-> parseTimeout(input)]
  /\ fpc' = "returned"
  /\ UNCHANGED <<portVars, clientVars, resVars, input>>

InitTimeout ==
  /\ natRules = NoRules
  /\ opts = NoOpts
  /\ usedPorts = <<>>
  /\ sel = NoSel
  /\ ppc = "idle"
  /\ mstate = MachineStatePoweredOff
  /\ ClientIdle
  /\ ResourceIdle
  /\ runs = NoRuns
  /\ input \in SeqsUpTo(DurChars, MaxDurLen)
  /\ fpc = "ready"
  /\ output = [err |-> "", val |-> 0]

SpecTimeout == InitTimeout /\ [][TimeoutStep]_vars

(***************************************************************************)
(* parseNATRedirect71: the redirect strings of the VirtualBox 7.1 service. *)
(***************************************************************************)
NATProtocolTCP == "TCP"
NATProtocolUDP == "UDP"

\* vboxapi.NATRedirect{}
NoRedirect ==
  [Name |-> <<>>, Protocol |-> "", HostIP |-> <<>>, HostPort |-> 0, GuestIP |-> <<>>,
   GuestPort |-> 0]

\* strconv.Atoi: an optional sign and decimal digits
Atoi(s) ==
  LET signed == s # <<>> /\ Head(s) \in {"+", "-"}
      t      == IF signed THEN Tail(s) ELSE s
  IN  IF t = <<>> \/ Prefix(t, Digits) # t
        THEN [err |-> "invalid syntax", n |-> 0]
        ELSE [err |-> "", n |-> IF signed /\ Head(s) = "-" THEN 0 - Decimal(t) ELSE Decimal(t)]

\* strconv.ParseUint(s, 10, 16) without the check of the range
ParseUintUnbounded(s) ==
  IF s = <<>> \/ Prefix(s, Digits) # s
    THEN [err |-> "invalid syntax", n |-> 0]
    ELSE [err |-> "", n |-> Decimal(s) % 65536]

\* strconv.ParseUint(s, 10, 16): decimal digits only, at most 65535
ParseUint16(s) ==
  IF s = <<>> \/ Prefix(s, Digits) # s
    THEN [err |-> "invalid syntax", n |-> 0]
    ELSE IF Decimal(s) > 65535 THEN [err |-> "value out of range", n |-> 65535]
    ELSE [err |-> "", n |-> Decimal(s)]

parseNATRedirect71(raw) ==
  LET parts == Split(raw, ",")
  IN  IF Len(parts) # 6 THEN [err |-> "expected 6 comma-separated fields", val |-> NoRedirect]
      ELSE LET protoNum  == Atoi(parts[2])
               hostPortN == ParseUint16(parts[4])
               guestPort == ParseUint16(parts[6])
           IN  IF protoNum.err # "" THEN [err |-> "invalid protocol value", val |-> NoRedirect]
               ELSE IF protoNum.n \notin {0, 1}
                 THEN [err |-> "unknown protocol number", val |-> NoRedirect]
               ELSE IF hostPortN.err # "" THEN [err |-> "invalid host port", val |-> NoRedirect]
               ELSE IF guestPort.err # "" THEN [err |-> "invalid guest port", val |-> NoRedirect]
               ELSE [err |-> "",
                     val |-> [Name |-> parts[1],
                              Protocol |-> IF protoNum.n = 0 THEN NATProtocolUDP
                                                             ELSE NATProtocolTCP,
                              HostIP |-> parts[3], HostPort |-> hostPortN.n,
                              GuestIP |-> parts[5], GuestPort |-> guestPort.n]]

\* the fields the strings tried are made of
NameFields  == {<<"s">>, <<>>}
ProtoFields == {<<"0">>, <<"1">>, <<"2">>, <<>>, <<"+", "1">>, <<"0", "1">>, <<"-", "1">>, <<"t">>}
IPFields    == {<<>>, <<"1", ".", "2">>}
PortFields  ==
  {<<"0">>, <<"2", "2">>, <<"0", "2", "2">>, <<"6", "5", "5", "3", "5">>,
   <<"6", "5", "5", "3", "6">>, <<>>, <<"-", "1">>, <<"+", "1">>, <<"t">>}

\* the strings tried have MinFields to MaxFields comma-separated fields
MinFields == 5
MaxFields == 7

\* strings.Join(fields, ",")
RECURSIVE Join(_)
Join(fields) ==
  IF fields = <<>> THEN <<>>
  ELSE IF Len(fields) = 1 THEN fields[1]
  ELSE fields[1] \o <<",">> \o Join(Tail(fields))

RawRedirects ==
  {Join(SubSeq(<<n, p, hi, hp, gi, gp>> \o [i \in 1..(MaxFields - 6) |-> <<"x">>], 1, k)) :
     n \in NameFields, p \in ProtoFields, hi \in IPFields, hp \in PortFields,
     gi \in {<<>>}, gp \in PortFields, k \in MinFields..MaxFields}

RedirectStep ==
  /\ fpc = "ready"
  /\ output' = parseNATRedirect71(input)
  /\ fpc' = "returned"
  /\ UNCHANGED <<portVars, clientVars, resVars, input>>

InitRedirect ==
  /\ natRules = NoRules
  /\ opts = NoOpts
  /\ usedPorts = <<>>
  /\ sel = NoSel
  /\ ppc = "idle"
  /\ mstate = MachineStatePoweredOff
  /\ ClientIdle
  /\ ResourceIdle
  /\ runs = NoRuns
  /\ input \in RawRedirects
  /\ fpc = "ready"
  /\ output = [err |-> "", val |-> NoRedirect]

SpecRedirect == InitRedirect /\ [][RedirectStep]_vars

(***************************************************************************)
(* parseNATNetworkRule71: the rule strings of a NAT network.               *)
(***************************************************************************)
\* the switch on strings.ToLower(parts[1]) compared without folding the case
NetworkRuleProtocolExact(token) ==
  IF token = <<"t", "c", "p">> THEN NATProtocolTCP
  ELSE IF token = <<"u", "d", "p">> THEN NATProtocolUDP
  ELSE ""

\* the switch on strings.ToLower(parts[1]); "" is the default branch
NetworkRuleProtocol(token) ==
  LET lower == ToLower(token)
  IN  IF lower = <<"t", "c", "p">> THEN NATProtocolTCP
      ELSE IF lower = <<"u", "d", "p">> THEN NATProtocolUDP
      ELSE ""

parseNATNetworkRule71(raw) ==
  LET parts == Split(raw, ":")
  IN  IF Len(parts) # 6 THEN [err |-> "expected 6 colon-separated fields", val |-> NoRedirect]
      ELSE LET proto     == NetworkRuleProtocol(parts[2])
               hostPortN == ParseUint16(parts[4])
               guestPort == ParseUint16(parts[6])
           IN  IF proto = "" THEN [err |-> "unknown protocol", val |-> NoRedirect]
               ELSE IF hostPortN.err # "" THEN [err |-> "invalid host port", val |-> NoRedirect]
               ELSE IF guestPort.err # "" THEN [err |-> "invalid guest port", val |-> NoRedirect]
               ELSE [err |-> "",
                     val |-> [Name |-> parts[1], Protocol |-> proto,
                              HostIP |-> parts[3], HostPort |-> hostPortN.n,
                              GuestIP |-> parts[5], GuestPort |-> guestPort.n]]

\* every casing of a three-letter word
Casings(lower, upper) ==
  {<<a, b, c>> : a \in {lower[1], upper[1]}, b \in {lower[2], upper[2]},
                 c \in {lower[3], upper[3]}}

\* the protocol tokens tried
ProtocolTokens ==
  Casings(<<"t", "c", "p">>, <<"T", "C", "P">>) \cup
  Casings(<<"u", "d", "p">>, <<"U", "D", "P">>) \cup
  {<<>>, <<"1">>, <<"t", "c">>, <<"t", "c", "p", "x">>, <<" ", "t", "c", "p">>,
   <<"i", "c", "m", "p">>, <<"U", "D", "P", " ">>, <<"t", "d", "p">>}

\* strings.Join(fields, ":")
RECURSIVE JoinColon(_)
JoinColon(fields) ==
  IF fields = <<>> THEN <<>>
  ELSE IF Len(fields) = 1 THEN fields[1]
  ELSE fields[1] \o <<":">> \o JoinColon(Tail(fields))

RawNetworkRules ==
  {JoinColon(SubSeq(<<n, p, hi, hp, gi, gp>> \o [i \in 1..(MaxFields - 6) |-> <<"x">>], 1, k)) :
     n \in {<<"s">>}, p \in ProtocolTokens, hi \in IPFields, hp \in PortFields,
     gi \in {<<>>}, gp \in PortFields, k \in MinFields..MaxFields}

NetworkRuleStep ==
  /\ fpc = "ready"
  /\ output' = parseNATNetworkRule71(input)
  /\ fpc' = "returned"
  /\ UNCHANGED <<portVars, clientVars, resVars, input>>

InitNetworkRule ==
  /\ natRules = NoRules
  /\ opts = NoOpts
  /\ usedPorts = <<>>
  /\ sel = NoSel
  /\ ppc = "idle"
  /\ mstate = MachineStatePoweredOff
  /\ ClientIdle
  /\ ResourceIdle
  /\ runs = NoRuns
  /\ input \in RawNetworkRules
  /\ fpc = "ready"
  /\ output = [err |-> "", val |-> NoRedirect]

SpecNetworkRule == InitNetworkRule /\ [][NetworkRuleStep]_vars

(***************************************************************************)
(* The provider and its machine resource.                                  *)
(***************************************************************************)
\* what NewMachineCloneResource and NewNatPortForwardResource return, with the
\* suffix their Metadata appends to the provider's type name
machineCloneResource   == [Resource |-> "machineCloneResource", Suffix |-> "_machine"]
natPortForwardResource == [Resource |-> "natPortForwardResource", Suffix |-> "_nat_port_forward"]
NewMachineCloneResource   == machineCloneResource
NewNatPortForwardResource == natPortForwardResource

\* vboxwebProvider.Resources: the list of factories
Resources == <<NewMachineCloneResource>>

\* the framework asks the provider for its resources before it serves one
ProviderResources ==
  /\ fpc = "ready"
  /\ PC = "idle"
  /\ callback = "none"
  /\ output' = [err |-> "", val |-> Resources]
  /\ fpc' = "returned"
  /\ UNCHANGED <<portVars, clientVars, resVars, input>>

S_RUNNING     == <<"r", "u", "n", "n", "i", "n", "g">>
S_ON          == <<"o", "n">>
S_POWEREDOFF  == <<"p", "o", "w", "e", "r", "e", "d", "o", "f", "f">>
S_POWERED_OFF == <<"p", "o", "w", "e", "r", "e", "d", "_", "o", "f", "f">>
S_OFF         == <<"o", "f", "f">>

normalizeDesiredState(s) ==
  LET t == ToLower(TrimSpace(s))
  IN  IF t \in {S_STARTED, S_RUNNING, S_ON} THEN S_STARTED
      ELSE IF t \in {S_STOPPED, S_POWEREDOFF, S_POWERED_OFF, S_OFF} THEN S_STOPPED
      ELSE t

\* machineCloneModel, the attributes Create computes with; <<>> is null or ""
NoMachinePlan  == [Name |-> <<>>, Source |-> <<>>, DesiredState |-> <<>>, WaitTimeout |-> <<>>]
NoMachineState == [set |-> FALSE, ID |-> "", CurrentState |-> "", DesiredState |-> <<>>]

\* the plans tried: state is validated to be started or stopped, or is absent
MachinePlans ==
  [Name : {S_VM}, Source : {S_TPL}, DesiredState : {<<>>, S_STARTED, S_STOPPED},
   WaitTimeout : {<<>>, <<"3", "s">>}]

\* the Client takes its timeout in seconds
Seconds(d) == d \div Second

\* the same, the state recorded whenever a UUID came back
machineCloneResourceCreateKeepingUUID ==
  \/ /\ PC = "idle" /\ callback = "none" /\ fpc = "returned"
     /\ \E p \in MachinePlans :
          LET state_  == IF p.DesiredState = <<>> THEN S_STOPPED ELSE p.DesiredState
              wait    == IF p.WaitTimeout = <<>> THEN <<"2", "0", "m">> ELSE p.WaitTimeout
              desired == normalizeDesiredState(state_)
              timeout == parseTimeout(wait)
          IN  /\ plan' = [p EXCEPT !.DesiredState = desired, !.WaitTimeout = wait]
              /\ EnterClone([Name |-> p.Name, Source |-> p.Source, DesiredState |-> desired,
                             Timeout |-> Seconds(timeout)])
     /\ callback' = "machineCreate"
     /\ cpc' = "clone"
     /\ UNCHANGED <<opts, round, prev, runs, parseVars, prior, hostPort, state, diags>>
  \/ /\ PC = "done" /\ callback = "machineCreate" /\ cpc = "clone"
     /\ IF result.err # "" /\ result.val.uuid = ""
          THEN Fail("Failed to clone VM") /\ UNCHANGED state
          ELSE /\ state' = [set |-> TRUE, ID |-> result.val.uuid,
                             CurrentState |-> result.val.state,
                             DesiredState |-> plan.DesiredState]
               /\ Finish
     /\ UNCHANGED <<opts, round, prev, runs, parseVars, callback, plan, prior, hostPort>>

\* machineCloneResource.Create: the defaults, CloneAndConverge, the state
machineCloneResourceCreate ==
  \/ /\ PC = "idle" /\ callback = "none" /\ fpc = "returned"
     /\ \E p \in MachinePlans :
          LET state_  == IF p.DesiredState = <<>> THEN S_STOPPED ELSE p.DesiredState
              wait    == IF p.WaitTimeout = <<>> THEN <<"2", "0", "m">> ELSE p.WaitTimeout
              desired == normalizeDesiredState(state_)
              timeout == parseTimeout(wait)
          IN  /\ plan' = [p EXCEPT !.DesiredState = desired, !.WaitTimeout = wait]
              /\ EnterClone([Name |-> p.Name, Source |-> p.Source, DesiredState |-> desired,
                             Timeout |-> Seconds(timeout)])
     /\ callback' = "machineCreate"
     /\ cpc' = "clone"
     /\ UNCHANGED <<opts, round, prev, runs, parseVars, prior, hostPort, state, diags>>
  \/ /\ PC = "done" /\ callback = "machineCreate" /\ cpc = "clone"
     /\ IF result.err # ""
          THEN Fail("Failed to clone VM") /\ UNCHANGED state
          ELSE /\ state' = [set |-> TRUE, ID |-> result.val.uuid,
                             CurrentState |-> result.val.state,
                             DesiredState |-> plan.DesiredState]
               /\ Finish
     /\ UNCHANGED <<opts, round, prev, runs, parseVars, callback, plan, prior, hostPort>>

InitMachine ==
  /\ ClientIdle
  /\ callback = "none"
  /\ cpc = ""
  /\ plan = NoMachinePlan
  /\ prior = NoMachineState
  /\ hostPort = 0
  /\ state = NoMachineState
  /\ diags = ""
  /\ runs = NoRuns
  /\ input = <<>>
  /\ fpc = "ready"
  /\ output = NoOutput
  /\ opts = NoOpts
  /\ usedPorts = <<>>
  /\ sel = NoSel
  /\ ppc = "idle"
  /\ mstate \in ObservedStates
  /\ natRules = NoRules

NextMachine ==
  \/ ProviderResources
  \/ machineCloneResourceCreate
  \/ CloneAndConverge
  \/ withSession
  \/ findMachine
  \/ waitProgress
  \/ convergeState
  \/ ensureRunning
  \/ ensurePoweredOff
  \/ Cancel
  \/ ExternalChange

SpecMachine == InitMachine /\ [][NextMachine]_vars

\* the NAT operations of the Client, called directly or by the resource
InitResource == Init /\ mstate = MachineStatePoweredOff

NextResource ==
  \/ CreateNATPortForward
  \/ ReadNATPortForward
  \/ DeleteNATPortForward
  \/ AllocateNATHostPort
  \/ withSession
  \/ findMachine
  \/ natPortForwardResourceCreate
  \/ natPortForwardResourceRead
  \/ natPortForwardResourceUpdate
  \/ ExternalRuleChange

SpecResource == InitResource /\ [][NextResource]_vars

(***************************************************************************)
(* Properties.  The trace of remote calls is read through these.           *)
(***************************************************************************)
Idx(api)   == {i \in DOMAIN calls : calls[i].api = api}
IdxOK(api) == {i \in Idx(api) : calls[i].ok}
MaxOf(S)   == CHOOSE x \in S : \A y \in S : y <= x
MinOf(S)   == CHOOSE x \in S : \A y \in S : x <= y

PowerCalls ==
  {"GetSessionObject", "LaunchVMProcess", "LockMachine", "GetConsole", "PowerDown",
   "UnlockSession"}
ConvergingOps == {"ConvergeStateByID", "CloneAndConverge"}
PoweringOps   == {"ConvergeStateByID", "CloneAndConverge", "DeleteByID"}
LockingNATOps == {"CreateNATPortForward", "DeleteNATPortForward"}

\* the ports SelectAvailablePort must not return
ConflictSet(usedList, o) ==
  {usedList[i].Port : i \in {j \in DOMAIN usedList :
       \/ o.Scope = HostIPScopeAny
       \/ HostIPConflicts(o.HostIP, usedList[j].HostIP)}}

\* C1: for MinPort <= MaxPort, SelectAvailablePort returns the smallest port of
\* the range outside the conflict set, and an error exactly when the range has
\* no such port.
C1_LowestFreeOrError ==
  (ppc = "done" /\ opts.MinPort <= opts.MaxPort) =>
     LET cs   == ConflictSet(usedPorts, opts)
         free == {p \in {opts.MinPort, opts.MaxPort} \cup {q + 1 : q \in cs} :
                    opts.MinPort <= p /\ p <= opts.MaxPort /\ p \notin cs}
     IN  IF free = {} THEN sel.err # ""
         ELSE /\ sel.err = ""
              /\ sel.port \in free
              /\ \A p \in free : sel.port <= p

\* C2: with scope "any" and NAT networks included, a port the allocation returns
\* is the host port of no redirect that exists on any adapter slot of any machine
\* or in any NAT network, whatever the enumeration calls answered.
C2_AllocatedPortUnused ==
  (ppc = "done" /\ sel.err = "" /\ opts.Scope = HostIPScopeAny /\ opts.IncludeNATNetworks) =>
     sel.port \notin ExistingHostPorts(natRules)

\* C3: Logon is the first remote call of an operation; when it fails it is the
\* only one; when it succeeds Logoff is called exactly once, on the session
\* Logon returned, as the last call of the operation, on every path.
C3_LogoffExactlyOnce ==
  op \in Ops =>
    /\ \A i \in DOMAIN calls : (calls[i].api = "Logon") <=> (i = 1)
    /\ (calls # <<>> /\ ~calls[1].ok) => (Len(calls) = 1 /\ PC = "done")
    /\ \A i \in Idx("Logoff") :
         /\ i = Len(calls)
         /\ PC = "done"
         /\ calls[1].ok
         /\ calls[i].ret = calls[1].ret
    /\ (PC = "done" /\ calls # <<>> /\ calls[1].ok) => calls[Len(calls)].api = "Logoff"

C3_Witness ==
  /\ PC = "done"
  /\ Len(calls) > 3
  /\ calls[1].ok
  /\ calls[Len(calls)].api = "Logoff"
  /\ result.err # ""

\* C4: what an operation returns is fixed before Logoff is called: its error is
\* the closure's error and its values are the closure's, whether Logoff
\* succeeds or fails.
C4_LogoffOutcomeIrrelevant ==
  [][(PC = "ws_logoff" /\ PC' = "done") =>
       /\ result'.err = err
       /\ (err = "" => result'.val = out)]_vars

C4_Witness ==
  /\ PC = "done"
  /\ calls # <<>>
  /\ calls[Len(calls)].api = "Logoff"
  /\ ~calls[Len(calls)].ok
  /\ result.err = ""

\* C5: in CreateNATPortForward and DeleteNATPortForward UnlockSession is called
\* at most once, only after a successful LockMachine and on its session object,
\* before Logoff; and once the closure has returned after a successful
\* LockMachine it has been called.
C5_UnlockAfterLock ==
  op \in LockingNATOps =>
    /\ Cardinality(Idx("UnlockSession")) <= 1
    /\ \A u \in Idx("UnlockSession") :
         \E l \in IdxOK("LockMachine") : l < u /\ calls[l].ret = calls[u].ret
    /\ \A u \in Idx("UnlockSession") : \A f \in Idx("Logoff") : u < f
    /\ (PC \in {"ws_logoff", "done"} /\ IdxOK("LockMachine") # {}) =>
         Idx("UnlockSession") # {}

C5_Witness ==
  /\ op = "DeleteNATPortForward"
  /\ PC = "done"
  /\ result.err = "GetNATEngine"
  /\ Idx("UnlockSession") # {}

\* C6: when an operation that powers a machine off has returned, every
\* successful LockMachine is followed by an UnlockSession.
C6_PowerOffLockReleased ==
  (op \in PoweringOps /\ PC = "done") =>
     \A l \in IdxOK("LockMachine") : \E u \in Idx("UnlockSession") : u > l

\* how an operation ends after a progress wait: no error, a failed result code
\* (without or with error text), a timeout, a cancellation
WaitEndings == {"", "ProgressFailed", "ProgressFailedText", "Timeout", "Canceled"}

\* C7: when an operation that powers a machine on has returned after the
\* launch progress completed, failed, timed out or was cancelled, every
\* LaunchVMProcess that started is followed by an UnlockSession.
C7_UnlockAfterLaunch ==
  (op \in ConvergingOps /\ PC = "done" /\ result.err \in WaitEndings) =>
     \A l \in IdxOK("LaunchVMProcess") : \E u \in Idx("UnlockSession") : u > l

C8_AtTargetNoAction ==
  (op \in ConvergingOps /\ Idx("GetMachineState") # {}) =>
     LET g == MinOf(Idx("GetMachineState"))
     IN  (calls[g].ok /\ calls[g].ret = TargetState(ToLower(req.desired))) =>
           /\ \A i \in DOMAIN calls : calls[i].api \notin PowerCalls
           /\ Idx("GetMachineState") = {g}
           /\ PC = "done" => (result.err = "" /\ result.val.state = calls[g].ret)

C8_SecondCallStep ==
  (/\ round = 2
   /\ PC = "cs"
   /\ ~changed
   /\ prev.err = ""
   /\ prev.val.state = TargetState(ToLower(req.desired))
   /\ calls' # calls) =>
     /\ PC' \notin {"er", "epo"}
     /\ err' = "" => st' = prev.val.state

\* C8: convergence that reads the target state makes none of the power calls,
\* reads the state once and returns what it read; and a second convergence to
\* the same target, the machine unchanged since the first one returned the
\* target, starts no transition.
C8_ConvergeIdempotent == []C8_AtTargetNoAction /\ [][C8_SecondCallStep]_vars

C8_Witness ==
  /\ round = 2
  /\ PC = "done"
  /\ result.err = ""
  /\ prev.val.state = TargetState(ToLower(req.desired))
  /\ result.val.state = prev.val.state
  /\ \A i \in DOMAIN calls : calls[i].api \notin PowerCalls

Transitions == Idx("LaunchVMProcess") \cup Idx("PowerDown")

\* C9: a convergence that started a transition and returned no error returns
\* the answer of a GetMachineState call made after the transition's progress
\* reported result code 0.
C9_ReturnsObservation ==
  (op \in ConvergingOps /\ PC = "done" /\ result.err = "" /\ Transitions # {}) =>
     LET t == MaxOf(Transitions)
         g == Len(calls) - 1
     IN  /\ g > t
         /\ calls[g].api = "GetMachineState"
         /\ calls[g].ok
         /\ result.val.state = calls[g].ret
         /\ \E r \in (t + 1)..(g - 1) :
              calls[r].api = "GetProgressResultCode" /\ calls[r].ok /\ calls[r].ret = "0"

\* the returned state differs from the target and there is no error
C9_Witness ==
  /\ op \in ConvergingOps
  /\ PC = "done"
  /\ result.err = ""
  /\ Transitions # {}
  /\ result.val.state # TargetState(ToLower(req.desired))

\* C10: ConvergeStateByID with a desired state that is neither "started" nor
\* "stopped" after trimming and lower-casing returns the validation error and
\* makes no remote call.
C10_InvalidDesiredRejected ==
  (op = "ConvergeStateByID" /\ ToLower(TrimSpace(req.desiredRaw)) \notin {S_STARTED, S_STOPPED}) =>
     /\ PC = "done"
     /\ calls = <<>>
     /\ result.err = "InvalidDesiredState"

C10_Witness ==
  /\ op = "ConvergeStateByID"
  /\ req.desiredRaw = <<" ">>
  /\ PC = "done"
  /\ calls = <<>>
  /\ result.err = "InvalidDesiredState"

\* C11: a CloneAndConverge request whose name is blank, whose source is blank,
\* or whose desired state is a non-empty string that is neither "started" nor
\* "stopped" (even after trimming and lower-casing) has returned a validation
\* error without any remote call.
C11_CloneValidatedBeforeRemote ==
  (/\ op = "CloneAndConverge"
   /\ \/ TrimSpace(req.name) = <<>>
      \/ TrimSpace(req.source) = <<>>
      \/ /\ req.desiredRaw # <<>>
         /\ ToLower(TrimSpace(req.desiredRaw)) \notin {S_STARTED, S_STOPPED}) =>
     /\ PC = "done"
     /\ calls = <<>>
     /\ result.err # ""

\* the statements waitProgress returns to
WaitReturns == {"cac_register", "er_unlock", "epo_unlock", "del_ret"}

C12_ProbeStep ==
  /\ (PC = "wp_start" /\ PC' = "wp") => deadline' = now + req.timeout
  /\ (PC = "wp" /\ Len(calls') > Len(calls)) =>
       /\ calls'[Len(calls')].api = "GetProgressCompleted"
       /\ ~cancelled
       /\ now <= deadline

\* C12: the deadline is the start time plus the timeout, and a completion probe
\* is issued only in an iteration that starts with the context not cancelled
\* and the clock not past the deadline.
C12_ChecksBeforeProbe == [][C12_ProbeStep]_vars

\* a wait that probed, slept past the deadline and then returned the timeout
C12_Witness ==
  /\ PC \in WaitReturns
  /\ err = "Timeout"
  /\ calls[Len(calls)].api = "GetProgressCompleted"
  /\ now > deadline

C13_ExitStep ==
  /\ (PC = "wp" /\ cancelled) =>
       (PC' \in WaitReturns /\ err' = "Canceled" /\ calls' = calls)
  /\ (PC = "wp" /\ PC' \in WaitReturns /\ err' = "Timeout") =>
       (now > deadline /\ ~cancelled)
  /\ (PC = "wp" /\ PC' \in WaitReturns /\ ~cancelled /\ now > deadline) =>
       (err' = "Timeout" /\ calls' = calls)

\* C13: an iteration that starts with the context cancelled returns the
\* context's error, also when the deadline has passed; the timeout error is
\* returned exactly when the deadline has passed and the context is not
\* cancelled.
C13_CancelBeforeTimeout == [][C13_ExitStep]_vars

\* cancelled and past the deadline: the context's error was returned
C13_Witness ==
  /\ PC \in WaitReturns
  /\ err = "Canceled"
  /\ cancelled
  /\ now > deadline

\* C14: waitProgress returns nil exactly when its last two calls are a probe
\* answering "completed" and a result-code read answering 0; after a non-zero
\* result code it returns an error whatever the error-text lookup does, and a
\* failed probe or result-code read is an error too.
C14_SuccessIffCompletedZero ==
  PC \in WaitReturns =>
    LET n    == Len(calls)
        last == calls[n]
    IN  /\ (err = "") <=>
             /\ last.api = "GetProgressResultCode" /\ last.ok /\ last.ret = "0"
             /\ calls[n - 1].api = "GetProgressCompleted"
             /\ calls[n - 1].ok /\ calls[n - 1].ret = "true"
        /\ last.api = "GetProgressErrorText" =>
             /\ err \in {"ProgressFailed", "ProgressFailedText"}
             /\ calls[n - 1].api = "GetProgressResultCode"
             /\ calls[n - 1].ok /\ calls[n - 1].ret = "nonzero"
        /\ ~(last.api = "GetProgressResultCode" /\ last.ok /\ last.ret # "0")
        /\ (last.api \in {"GetProgressCompleted", "GetProgressResultCode"} /\ ~last.ok) =>
             err = last.api

\* the error-text lookup itself failed: the bare result-code failure is returned
C14_Witness ==
  /\ PC \in WaitReturns
  /\ calls[Len(calls)].api = "GetProgressErrorText"
  /\ ~calls[Len(calls)].ok
  /\ err = "ProgressFailed"

\* the calls that return a progress handle
Handles ==
  IdxOK("CloneTo") \cup IdxOK("LaunchVMProcess") \cup IdxOK("PowerDown")
    \cup IdxOK("DeleteConfig")

\* the handle obtained by call h has reported completion
ReportedCompletion(h) ==
  \E c \in DOMAIN calls :
    /\ c > h
    /\ calls[c].api = "GetProgressCompleted" /\ calls[c].ok /\ calls[c].ret = "true"
    /\ \A k \in Handles : ~(h < k /\ k < c)

\* C15: when a public operation has returned, every progress handle it obtained
\* has reported completion.
C15_HandlesPolledToCompletion ==
  (op \in Ops /\ PC = "done") => \A h \in Handles : ReportedCompletion(h)

\* the errors with which a wait ends before the operation reported completion
WaitAbandonErrors == {"Canceled", "Timeout", "GetProgressCompleted"}

\* the pre-delete power-off of DeleteByID, whose error is dropped
BestEffort(h) == op = "DeleteByID" /\ calls[h].api = "PowerDown"

\* C15 (amended): when a public operation has returned, every progress handle
\* it obtained has either reported completion or its wait ended with the
\* context's error, the timeout or a failed probe, and that error is what the
\* operation returned (except for DeleteByID's best-effort power-off); an
\* operation that returned nil left no other handle short of completion.
C15_HandlesPolledOrWaitFailed ==
  (op \in Ops /\ PC = "done") =>
     \A h \in Handles :
        \/ ReportedCompletion(h)
        \/ BestEffort(h)
        \/ /\ result.err \in WaitAbandonErrors
           /\ \A k \in Handles : k <= h
           /\ \A i \in (h + 1)..(Len(calls) - 1) : calls[i].api = "GetProgressCompleted"

\* an operation returned the timeout with its handle short of completion
C15_Witness ==
  /\ op \in Ops
  /\ PC = "done"
  /\ result.err = "Timeout"
  /\ \E h \in Handles : ~ReportedCompletion(h) /\ ~BestEffort(h)

\* the statements findMachine returns to
FindReturns ==
  {"cac_ostype", "gmi_getid", "gs_getstate", "csb_conv", "del_poweroff",
   "cnat_sess", "rnat_adapter", "dnat_sess", "gnat_adapter"}

\* the answer of the FindMachine call just made: a reference or an error text
Lookup == calls[Len(calls)]

PowerOffCalls ==
  {"GetSessionObject", "LockMachine", "GetConsole", "PowerDown", "GetProgressCompleted",
   "GetProgressResultCode", "GetProgressErrorText", "UnlockSession"}
ProgressCalls ==
  {"GetProgressCompleted", "GetProgressResultCode", "GetProgressErrorText"}

\* C17: a DeleteByID that found the machine and has returned called
\* UnregisterMachine once, right after the calls of the power-off whatever
\* their outcome, then DeleteConfig with the media references UnregisterMachine
\* returned, then only the progress calls; and its result is decided by the
\* unregister, the delete and the wait alone.
C17_PowerOffBestEffort ==
  (op = "DeleteByID" /\ PC = "done" /\ Idx("GetSessionObject") # {}) =>
     /\ Cardinality(Idx("UnregisterMachine")) = 1
     /\ LET u == MinOf(Idx("UnregisterMachine"))
            n == Len(calls) - 1
        IN  /\ \A i \in 3..(u - 1) : calls[i].api \in PowerOffCalls
            /\ ~calls[u].ok => (u = n /\ result.err = "UnregisterMachine")
            /\ calls[u].ok =>
                 /\ calls[u + 1].api = "DeleteConfig"
                 /\ calls[u + 1].ret = calls[u].ret
                 /\ ~calls[u + 1].ok => (u + 1 = n /\ result.err = "DeleteConfig")
                 /\ \A i \in (u + 2)..n : calls[i].api \in ProgressCalls
            /\ (result.err = "") <=>
                 /\ calls[u].ok
                 /\ calls[u + 1].ok
                 /\ n > u + 1
                 /\ calls[n].api = "GetProgressResultCode" /\ calls[n].ok /\ calls[n].ret = "0"

\* the lock of the power-off failed and the machine was deleted without error
C17_Witness ==
  /\ op = "DeleteByID"
  /\ PC = "done"
  /\ \E i \in Idx("LockMachine") : ~calls[i].ok
  /\ \E u \in IdxOK("UnregisterMachine") : calls[u].ret = "media"
  /\ result.err = ""

C18_NothingAfterFailure ==
  (op = "CloneAndConverge" /\ err # "" /\ calls' # calls) =>
     /\ Len(calls') = Len(calls) + 1
     /\ calls'[Len(calls')].api = "Logoff"

\* C18: CloneAndConverge never calls UnregisterMachine or DeleteConfig, calls
\* FindMachine, CreateMachine, CloneTo and RegisterMachine at most once, and
\* once one of its steps has returned an error the only remote call it still
\* makes is Logoff.
C18_NoRollback ==
  /\ [](op = "CloneAndConverge" =>
          /\ Idx("UnregisterMachine") \cup Idx("DeleteConfig") = {}
          /\ \A a \in {"FindMachine", "CreateMachine", "CloneTo", "RegisterMachine"} :
               Cardinality(Idx(a)) <= 1)
  /\ [][C18_NothingAfterFailure]_vars

\* the machine was created and registered, the convergence failed, nothing undone
C18_Witness ==
  /\ op = "CloneAndConverge"
  /\ PC = "done"
  /\ IdxOK("CreateMachine") # {}
  /\ IdxOK("RegisterMachine") # {}
  /\ result.err = "LaunchVMProcess"
  /\ calls[Len(calls) - 1].api = "LaunchVMProcess"

\* the texts with which the remote reports that the rule to remove is absent
AbsentTexts == {T_NOT_FOUND, T_DOES_NOT_EXIST}

\* the machine was found and no call failed, a removal reporting absence aside
DeleteUnhindered ==
  /\ Idx("GetSessionObject") # {}
  /\ Idx("RemoveNATRedirect") # {}
  /\ \A i \in DOMAIN calls :
       \/ calls[i].ok
       \/ calls[i].api \in {"UnlockSession", "Logoff"}
       \/ calls[i].api = "RemoveNATRedirect" /\ calls[i].text \in AbsentTexts

\* C19: a DeleteNATPortForward on an existing machine, none of whose calls
\* failed other than a removal reporting that the rule is absent, returns nil
\* and leaves the adapter without the rule, in a first call and in a second
\* call made right after it.
C19_DeleteAbsentRuleSucceeds ==
  (op = "DeleteNATPortForward" /\ PC = "done" /\ DeleteUnhindered) =>
     (result.err = "" /\ ~HasRule(natRules[NatPlace], req.rule))

\* the second delete in a row: the remote reported the rule absent, nil returned
C19_Witness ==
  /\ op = "DeleteNATPortForward"
  /\ round = 2
  /\ prev.err = ""
  /\ PC = "done"
  /\ \E r \in Idx("RemoveNATRedirect") : ~calls[r].ok /\ calls[r].text \in AbsentTexts
  /\ result.err = ""

\* what findMachine made of the lookup recorded as the second call
Resolution ==
  findMachineErr([ok |-> calls[2].ok, ref |-> calls[2].text, text |-> calls[2].text])

\* C20: a DeleteNATPortForward whose machine resolution reported NotFound made
\* no call but Logon, FindMachine and Logoff and returned nil; one whose
\* resolution failed otherwise made no further call either and returned that
\* error.
C20_DeleteOnMissingMachine ==
  (op = "DeleteNATPortForward" /\ PC = "done" /\ Len(calls) >= 2 /\ Resolution # "") =>
     /\ Len(calls) = 3
     /\ calls[3].api = "Logoff"
     /\ Idx("GetSessionObject") \cup Idx("LockMachine") \cup Idx("RemoveNATRedirect")
          \cup Idx("SaveSettings") = {}
     /\ result.err = IF Resolution = "NotFound" THEN "" ELSE Resolution

\* the remote reported the machine missing and the delete returned nil
C20_Witness ==
  /\ op = "DeleteNATPortForward"
  /\ PC = "done"
  /\ Len(calls) = 3
  /\ ~calls[2].ok
  /\ calls[2].text = T_OBJECT_NOT_FOUND
  /\ result.err = ""

\* the calls of the operation other than the closing Logoff all succeeded
AllCallsOK == \A i \in DOMAIN calls : calls[i].ok \/ calls[i].api = "Logoff"

\* the position of the first redirect of the adapter that has the name
FirstIndex(name) ==
  MinOf({i \in DOMAIN natRules[NatPlace] : natRules[NatPlace][i].Name = name})

ReadCalls == {"Logon", "FindMachine", "GetNetworkAdapter", "GetNATEngine",
              "GetNATRedirects", "Logoff"}

\* what a returned ReadNATPortForward has produced
C21_ReadOutcome ==
  (op = "ReadNATPortForward" /\ PC = "done" /\ Len(calls) >= 2
     /\ calls[1].ok /\ calls[2].api = "FindMachine") =>
     /\ Resolution = "NotFound" =>
          /\ result.err = "NotFound"
          /\ ~result.val.found
          /\ Len(calls) = 3
     /\ (Resolution = "" /\ AllCallsOK) =>
          /\ result.err = ""
          /\ result.val.found <=> HasRule(natRules[NatPlace], req.rule)
          /\ result.val.found =>
               /\ result.val.rule = req.rule
               /\ result.val.port = natRules[NatPlace][FirstIndex(req.rule)].HostPort

\* a step of ReadNATPortForward leaves the remote system as it was
C21_ReadStep ==
  (op = "ReadNATPortForward" /\ op' = op) => (natRules' = natRules /\ mstate' = mstate)

\* C21: ReadNATPortForward returns a NotFound error and no rule when the
\* machine is not found; when the machine exists and its calls succeed it
\* returns no error, and no rule exactly when no redirect of the adapter has
\* the name, otherwise the name and host port of the first redirect with that
\* name; it makes no call but Logon, FindMachine, GetNetworkAdapter,
\* GetNATEngine, GetNATRedirects and Logoff and changes nothing remote.
C21_ReadAsymmetric ==
  /\ [](C21_ReadOutcome)
  /\ [](op = "ReadNATPortForward" => \A i \in DOMAIN calls : calls[i].api \in ReadCalls)
  /\ [][C21_ReadStep]_vars

\* a read that found the rule behind another one
C21_Witness ==
  /\ op = "ReadNATPortForward"
  /\ PC = "done"
  /\ natRules = TwoRules
  /\ req.rule = "ssh"
  /\ result.err = ""
  /\ result.val.found
  /\ result.val.port = 0

\* a read on an existing machine without the rule: nil, nil
C21_WitnessAbsentRule ==
  /\ op = "ReadNATPortForward"
  /\ PC = "done"
  /\ natRules = OneRule
  /\ req.rule = "dns"
  /\ AllCallsOK
  /\ result.err = ""
  /\ ~result.val.found

\* a resource callback has returned
CallbackEnded(cbs) == callback \in cbs /\ cpc = "end"

\* the last Client call of the callback was a ReadNATPortForward that returned
\* without error
ReadBack == op = "ReadNATPortForward" /\ PC = "done" /\ result.err = ""

\* C22: a Create, Update or Read that returned without a diagnostic and left
\* a state holds in effective_host_port the host port its ReadNATPortForward
\* returned, which is the port of the rule on the adapter; Create and Update
\* without a diagnostic always leave a state; and a Create or Update whose
\* read-back found no rule has a diagnostic and the state it started with.
C22_EffectivePortIsReadBack ==
  /\ (CallbackEnded({"Create", "Update", "Read"}) /\ diags = "" /\ state.set) =>
       /\ ReadBack
       /\ result.val.found
       /\ state.EffectiveHostPort = result.val.port
       /\ HasRule(natRules[NatPlace], state.Name)
       /\ state.EffectiveHostPort = natRules[NatPlace][FirstIndex(state.Name)].HostPort
  /\ (CallbackEnded({"Create", "Update"}) /\ diags = "") => state.set
  /\ (CallbackEnded({"Create", "Update"}) /\ ReadBack /\ ~result.val.found) =>
       /\ diags # ""
       /\ state = prior

\* a Create with an auto-allocated port stored an effective port that is not
\* the allocated one
C22_Witness ==
  /\ CallbackEnded({"Create"})
  /\ plan.AutoHostPort
  /\ plan.HostPort = 0
  /\ diags = ""
  /\ state.set
  /\ state.HostPort = 1
  /\ state.EffectiveHostPort = ForeignPort

\* an Update whose read-back found no rule
C22_WitnessNoRule ==
  /\ CallbackEnded({"Update"})
  /\ ReadBack
  /\ ~result.val.found
  /\ diags = "NAT port forward rule not found after creation"
  /\ state = prior
  /\ state.set

\* a Read that found the remote port drifted from the stored host_port
C22_WitnessRead ==
  /\ CallbackEnded({"Read"})
  /\ diags = ""
  /\ state.set
  /\ state.EffectiveHostPort # state.HostPort

\* C23: when SelectAvailablePort fails for exhaustion, the count it reports is
\* the number of ports of [MinPort, MaxPort] that are in the conflict set, and
\* is the size of the range, MaxPort - MinPort + 1, under either scope.
C23_ExhaustionCount ==
  (ppc = "done" /\ sel.err = "ErrNoPorts") =>
     LET inRange == {p \in opts.MinPort..opts.MaxPort : p \in ConflictSet(usedPorts, opts)}
     IN  /\ sel.usedInRange = Cardinality(inRange)
         /\ sel.usedInRange = opts.MaxPort - opts.MinPort + 1
         /\ sel.rangeSize = opts.MaxPort - opts.MinPort + 1

\* an exhausted range of two ports under scope exact
C23_Witness ==
  /\ ppc = "done"
  /\ sel.err = "ErrNoPorts"
  /\ opts.Scope = HostIPScopeExact
  /\ opts.MinPort = 0
  /\ opts.MaxPort = 1
  /\ sel.usedInRange = 2

\* the host IP strings of the call: the candidate's and the used records'
CallIPs == {opts.HostIP} \cup {usedPorts[i].HostIP : i \in DOMAIN usedPorts}

\* t is s without its leading and trailing white space
IsTrimOf(t, s) ==
  \E i \in 0..Len(s), j \in 0..Len(s) :
    /\ i <= j
    /\ t = SubSeq(s, i + 1, j)
    /\ \A k \in 1..i : IsSpace(s[k])
    /\ \A k \in (j + 1)..Len(s) : IsSpace(s[k])
    /\ t # <<>> => (~IsSpace(t[1]) /\ ~IsSpace(t[Len(t)]))

\* s stands for every address: blank or 0.0.0.0 between white space
IsAny(s) == IsTrimOf(<<>>, s) \/ IsTrimOf(IP_ZERO, s)

\* C24: on the host IP strings of a SelectAvailablePort call, NormalizeHostIP
\* gives the empty string for a blank string and for 0.0.0.0 and the trimmed
\* string otherwise, and is idempotent; HostIPConflicts holds exactly when one
\* of the normalized strings is empty or both are equal; it is symmetric and
\* reflexive, an any address conflicts with every address, and two specific
\* addresses that differ once trimmed do not conflict.
C24_HostIPConflicts ==
  ppc = "done" =>
    /\ \A a \in CallIPs :
         /\ IF IsAny(a) THEN NormalizeHostIP(a) = <<>> ELSE IsTrimOf(NormalizeHostIP(a), a)
         /\ NormalizeHostIP(NormalizeHostIP(a)) = NormalizeHostIP(a)
         /\ HostIPConflicts(a, a)
    /\ \A a, b \in CallIPs :
         /\ HostIPConflicts(a, b) <=>
              \/ NormalizeHostIP(a) = <<>>
              \/ NormalizeHostIP(b) = <<>>
              \/ NormalizeHostIP(a) = NormalizeHostIP(b)
         /\ HostIPConflicts(a, b) <=> HostIPConflicts(b, a)
         /\ IsAny(a) => HostIPConflicts(a, b)
         /\ (~IsAny(a) /\ ~IsAny(b)) =>
              (HostIPConflicts(a, b) <=> \E t \in {NormalizeHostIP(a)} : IsTrimOf(t, a) /\ IsTrimOf(t, b))

\* a call under scope exact whose candidate " 127.0.0.1" met a record on
\* "127.0.0.1" and one on "192.168.1.1": the first port is blocked, the second
\* is returned
C24_Witness ==
  /\ ppc = "done"
  /\ opts.Scope = HostIPScopeExact
  /\ opts.HostIP = IP_LOOP_SP
  /\ opts.MinPort = 0
  /\ opts.MaxPort = 1
  /\ usedPorts = <<[Port |-> 0, HostIP |-> IP_LOOP], [Port |-> 1, HostIP |-> IP_LAN]>>
  /\ sel.err = ""
  /\ sel.port = 1

\* the ports blocked for the candidate: under scope any the port of every
\* record, under scope exact the port of a record whose address is an any
\* address or the candidate's, or of any record when the candidate's is one
BlockedFor(usedList, o) ==
  {p \in {usedList[i].Port : i \in DOMAIN usedList} :
     \E i \in DOMAIN usedList :
       /\ usedList[i].Port = p
       /\ \/ o.Scope = HostIPScopeAny
          \/ (o.Scope = HostIPScopeExact /\ IsAny(o.HostIP))
          \/ (o.Scope = HostIPScopeExact /\ IsAny(usedList[i].HostIP))
          \/ (o.Scope = HostIPScopeExact
                /\ \E t \in {TrimSpace(o.HostIP)} : IsTrimOf(t, usedList[i].HostIP))}

\* C25: a port of the range that SelectAvailablePort passed over is the port
\* of a used record that blocks it (any record under scope any; under scope
\* exact a record whose host IP conflicts with the candidate's, an any
\* address included), and the port it returns is the port of no such record.
C25_ScopeConflictSet ==
  (ppc = "done" /\ opts.MinPort <= opts.MaxPort) =>
     LET blocked == BlockedFor(usedPorts, opts)
     IN  /\ BuildUsedSet(usedPorts, opts) = blocked
         /\ sel.err = "" =>
              /\ sel.port \notin blocked
              /\ \A p \in opts.MinPort..(sel.port - 1) : p \in blocked
         /\ sel.err # "" => \A p \in opts.MinPort..opts.MaxPort : p \in blocked

\* scope exact: a port used only by a record bound to another specific address
\* is selected
C25_Witness ==
  /\ ppc = "done"
  /\ opts.Scope = HostIPScopeExact
  /\ opts.HostIP = IP_LOOP_SP
  /\ opts.MinPort = 0
  /\ usedPorts = <<[Port |-> 0, HostIP |-> IP_LAN]>>
  /\ sel.err = ""
  /\ sel.port = 0

\* scope exact: a port used by a record bound to every address is passed over
C25_WitnessAny ==
  /\ ppc = "done"
  /\ opts.Scope = HostIPScopeExact
  /\ opts.HostIP = IP_LAN
  /\ opts.MinPort = 0
  /\ usedPorts = <<[Port |-> 0, HostIP |-> IP_ANY]>>
  /\ sel.err = ""
  /\ sel.port = 1

\* scope any: a port used by a record bound to another address is passed over
C25_WitnessScopeAny ==
  /\ ppc = "done"
  /\ opts.Scope = HostIPScopeAny
  /\ opts.HostIP = IP_LOOP_SP
  /\ opts.MinPort = 0
  /\ usedPorts = <<[Port |-> 0, HostIP |-> IP_LAN]>>
  /\ sel.err = ""
  /\ sel.port = 1

C26_SecondCallStep ==
  (ppc = "done" /\ ppc' = "again") => sel' = sel

\* C26: a call of SelectAvailablePort that follows another with the same
\* options and the same set of used records, listed in the same or another
\* order and with or without repetitions, returns what the first returned.
C26_SelectDeterministic == [][C26_SecondCallStep]_vars

\* a second call with the two records exchanged returned the same port
C26_Witness ==
  /\ ppc = "again"
  /\ opts.MinPort = 0
  /\ opts.MaxPort = 1
  /\ usedPorts = <<[Port |-> 1, HostIP |-> IP_LAN], [Port |-> 0, HostIP |-> IP_ANY]>>
  /\ opts.Scope = HostIPScopeExact
  /\ opts.HostIP = IP_LOOP_SP
  /\ sel.err = ""
  /\ sel.port = 1

\* C27: nothing reserves an allocated port.  Two applies that have both
\* allocated, each with a complete enumeration, before either has created its
\* rule hold the same port, and that port is bound by no existing rule.
C27_NoReservation ==
  (/\ runs[1].pc = "allocated" /\ runs[1].full
   /\ runs[2].pc = "allocated" /\ runs[2].full) =>
     /\ runs[1].port = runs[2].port
     /\ runs[1].port \notin ExistingHostPorts(natRules)

\* both applies have created their rule: two rules of the adapter are bound to
\* the port both selected
C27_Witness ==
  /\ runs[1].pc = "done"
  /\ runs[2].pc = "done"
  /\ runs[1].port = runs[2].port
  /\ \E a, b \in DOMAIN natRules[NatPlace] :
       /\ natRules[NatPlace][a].Name = "ssh"
       /\ natRules[NatPlace][b].Name = "dns"
       /\ natRules[NatPlace][a].HostPort = runs[1].port
       /\ natRules[NatPlace][b].HostPort = runs[1].port

\* s is a decimal numeral: digits only, at least one
IsNumber(s) == s # <<>> /\ \A i \in DOMAIN s : s[i] \in Digits

\* the identifier has the shape machine_id:adapter_slot:name with a slot
\* that is a number from 0 to 7
WellFormedID(id) ==
  LET colons == {i \in DOMAIN id : id[i] = ":"}
  IN  /\ Cardinality(colons) = 2
      /\ LET slot == SubSeq(id, MinOf(colons) + 1, MaxOf(colons) - 1)
         IN  IsNumber(slot) /\ Decimal(slot) \in 0..7

\* C28: ImportState sets the state attributes exactly for an identifier of
\* three colon-separated parts whose slot is a number from 0 to 7, and
\* returns an error diagnostic and sets nothing for every other identifier.
C28_ImportAcceptsExactly ==
  fpc = "returned" =>
    /\ (output.err = "") <=> WellFormedID(input)
    /\ (output.err = "") <=> output.val.set

\* an identifier with a slot that is not a number was imported
C28_Divergence ==
  /\ fpc = "returned"
  /\ input = <<"m", ":", "7", "m", ":">>
  /\ output.err = ""
  /\ output.val.adapter_slot = 7

\* C29: parseTimeout returns the duration of a string that parses to a
\* positive duration and 20 minutes for every other string: blank, white
\* space, unparsable, zero or negative; it has no error to return.
C29_TimeoutOrDefault ==
  fpc = "returned" =>
    LET p == ParseDuration(input)
        positive == p.err = "" /\ p.d > 0
    IN  /\ output.err = ""
        /\ positive => output.val = p.d
        /\ ~positive => output.val = 20 * Minute
        /\ (\A i \in DOMAIN input : input[i] = " ") => output.val = 20 * Minute
        /\ output.val > 0

\* "5m5s" gave 305 seconds
C29_Witness ==
  /\ fpc = "returned"
  /\ input = <<"5", "m", "5", "s">>
  /\ output.val = 305 * Second

\* "-5m" gave the default
C29_WitnessNegative ==
  /\ fpc = "returned"
  /\ input = <<"-", "5", "m">>
  /\ ParseDuration(input) = [err |-> "", d |-> 0 - 5 * Minute]
  /\ output.val = 20 * Minute

\* "0s" gave the default
C29_WitnessZero ==
  /\ fpc = "returned"
  /\ input = <<"0", "s">>
  /\ ParseDuration(input) = [err |-> "", d |-> 0]
  /\ output.val = 20 * Minute

\* the decimal digits of a natural number
DigitChar == <<"0", "1", "2", "3", "4", "5", "6", "7", "8", "9">>
RECURSIVE Format(_)
Format(n) ==
  IF n < 10 THEN <<DigitChar[n + 1]>> ELSE Format(n \div 10) \o <<DigitChar[(n % 10) + 1]>>

\* the values a redirect string is written from
RedirectValues ==
  [Name : NameFields, Protocol : {NATProtocolUDP, NATProtocolTCP}, HostIP : IPFields,
   HostPort : {0, 22, 65535}, GuestIP : {<<>>}, GuestPort : {0, 22, 65535}]

\* name,proto,hostIP,hostPort,guestIP,guestPort with 0 for UDP and 1 for TCP
Encode(v) ==
  Join(<<v.Name, IF v.Protocol = NATProtocolUDP THEN <<"0">> ELSE <<"1">>, v.HostIP,
         Format(v.HostPort), v.GuestIP, Format(v.GuestPort)>>)

\* the number of comma-separated fields of a string
FieldCount(s) == Cardinality({i \in DOMAIN s : s[i] = ","}) + 1

\* the k-th comma-separated field of a string with at least k fields
Field(s, k) ==
  LET commas == {i \in DOMAIN s : s[i] = ","}
      before == IF k = 1 THEN 0
                ELSE CHOOSE i \in commas : Cardinality({j \in commas : j < i}) = k - 2
      after  == IF Cardinality(commas) < k THEN Len(s) + 1
                ELSE CHOOSE i \in commas : Cardinality({j \in commas : j < i}) = k - 1
  IN  SubSeq(s, before + 1, after - 1)

\* the field writes the number 0 or 1
IsProto(s) ==
  \E sign \in {<<>>, <<"+">>, <<"-">>}, z \in 0..2, b \in {"0", "1"} :
    /\ s = sign \o [i \in 1..z |-> "0"] \o <<b>>
    /\ ~(sign = <<"-">> /\ b = "1")

\* the field writes an unsigned 16-bit integer
IsPort(s) == IsNumber(s) /\ Decimal(s) <= 65535

\* C30: the decoding of name,proto,hostIP,hostPort,guestIP,guestPort written
\* from a name, a protocol (0 for UDP, 1 for TCP), two addresses and two
\* ports of 0..65535 succeeds and gives back these six values; the decoding
\* of a string that has not 6 fields, whose protocol field is not 0 or 1 or
\* one of whose port fields is not an unsigned 16-bit integer fails.
C30_DecodeRoundTrip ==
  fpc = "returned" =>
    /\ \A v \in RedirectValues :
         input = Encode(v) => (output.err = "" /\ output.val = v)
    /\ (\/ FieldCount(input) # 6
        \/ ~IsProto(Field(input, 2))
        \/ ~IsPort(Field(input, 4))
        \/ ~IsPort(Field(input, 6))) => (output.err # "" /\ output.val = NoRedirect)
    /\ output.err = "" => \E v \in RedirectValues : output.val = v

\* "s,1,1.2,65535,,22" decoded
C30_Witness ==
  /\ fpc = "returned"
  /\ input = Encode([Name |-> <<"s">>, Protocol |-> NATProtocolTCP, HostIP |-> <<"1", ".", "2">>,
                     HostPort |-> 65535, GuestIP |-> <<>>, GuestPort |-> 22])
  /\ output.err = ""
  /\ output.val.Protocol = NATProtocolTCP
  /\ output.val.HostPort = 65535
  /\ output.val.GuestPort = 22

\* a host port of 65536 refused
C30_WitnessRange ==
  /\ fpc = "returned"
  /\ Field(input, 4) = <<"6", "5", "5", "3", "6">>
  /\ FieldCount(input) = 6
  /\ IsProto(Field(input, 2))
  /\ IsPort(Field(input, 6))
  /\ output.err = "invalid host port"


(***************************************************************************)
(* C31                                                                     *)
(***************************************************************************)
\* the number of colon-separated fields of a string
ColonCount(s) == Cardinality({i \in DOMAIN s : s[i] = ":"}) + 1

\* the k-th colon-separated field of a string with at least k fields
ColonField(s, k) ==
  LET colons == {i \in DOMAIN s : s[i] = ":"}
      before == IF k = 1 THEN 0
                ELSE CHOOSE i \in colons : Cardinality({j \in colons : j < i}) = k - 2
      after  == IF Cardinality(colons) < k THEN Len(s) + 1
                ELSE CHOOSE i \in colons : Cardinality({j \in colons : j < i}) = k - 1
  IN  SubSeq(s, before + 1, after - 1)

IsTCP(s) == s \in Casings(<<"t", "c", "p">>, <<"T", "C", "P">>)
IsUDP(s) == s \in Casings(<<"u", "d", "p">>, <<"U", "D", "P">>)

\* C31: a rule string of six fields whose protocol is a casing of tcp or of
\* udp and whose ports are unsigned 16-bit integers decodes to its fields, a
\* casing of tcp to TCP and a casing of udp to UDP; any other field count,
\* protocol token or port fails.
C31_NetworkRuleDecoding ==
  fpc = "returned" =>
    LET wellFormed ==
          /\ ColonCount(input) = 6
          /\ IsTCP(ColonField(input, 2)) \/ IsUDP(ColonField(input, 2))
          /\ IsPort(ColonField(input, 4))
          /\ IsPort(ColonField(input, 6))
    IN  /\ wellFormed <=> output.err = ""
        /\ ~wellFormed => output.val = NoRedirect
        /\ wellFormed =>
              /\ output.val.Protocol = IF IsTCP(ColonField(input, 2)) THEN NATProtocolTCP
                                                                       ELSE NATProtocolUDP
              /\ output.val.Name = ColonField(input, 1)
              /\ output.val.HostIP = ColonField(input, 3)
              /\ output.val.HostPort = Decimal(ColonField(input, 4))
              /\ output.val.GuestIP = ColonField(input, 5)
              /\ output.val.GuestPort = Decimal(ColonField(input, 6))

\* "s:uDp:1.2:65535::22" decoded to UDP
C31_Witness ==
  /\ fpc = "returned"
  /\ input = JoinColon(<<<<"s">>, <<"u", "D", "p">>, <<"1", ".", "2">>,
                         <<"6", "5", "5", "3", "5">>, <<>>, <<"2", "2">>>>)
  /\ output.err = ""
  /\ output.val.Protocol = NATProtocolUDP
  /\ output.val.HostPort = 65535

\* "s:icmp::22::22" refused for its protocol
C31_WitnessProtocol ==
  /\ fpc = "returned"
  /\ ColonCount(input) = 6
  /\ ColonField(input, 2) = <<"i", "c", "m", "p">>
  /\ IsPort(ColonField(input, 4))
  /\ IsPort(ColonField(input, 6))
  /\ output.err = "unknown protocol"

\* a guest port of 65536 refused
C31_WitnessPort ==
  /\ fpc = "returned"
  /\ ColonCount(input) = 6
  /\ IsTCP(ColonField(input, 2))
  /\ IsPort(ColonField(input, 4))
  /\ ColonField(input, 6) = <<"6", "5", "5", "3", "6">>
  /\ output.err = "invalid guest port"


(***************************************************************************)
(* C33                                                                     *)
(***************************************************************************)
\* the remote steps of CloneAndConverge's closure before the convergence
CloneSteps ==
  <<"FindMachine", "GetOSTypeId", "CreateMachine", "CloneTo", "RegisterMachine",
    "GetMachineId">>

\* the calls that read or change the power state
ConvergeCalls == PowerCalls \cup {"GetMachineState"}

\* call i is a poll of the progress handle
IsPoll(i) ==
  calls[i].api \in {"GetProgressCompleted", "GetProgressResultCode", "GetProgressErrorText"}

\* C33: in CloneAndConverge every step is called at most once and only after
\* the step before it succeeded; between CloneTo and RegisterMachine there
\* are only polls of the clone's progress, the last two of them reporting
\* completed and result code 0; and every call that reads or changes the
\* power state comes after a successful RegisterMachine and GetMachineId.
C33_CloneStepsInOrder ==
  op = "CloneAndConverge" =>
    /\ \A k \in DOMAIN CloneSteps :
         /\ Cardinality(Idx(CloneSteps[k])) <= 1
         /\ (k > 1 /\ Idx(CloneSteps[k]) # {}) =>
              \E i \in IdxOK(CloneSteps[k - 1]) : \A j \in Idx(CloneSteps[k]) : i < j
    /\ \A r \in Idx("RegisterMachine") :
         /\ r > 3
         /\ calls[r - 1].api = "GetProgressResultCode"
         /\ calls[r - 1].ok /\ calls[r - 1].ret = "0"
         /\ calls[r - 2].api = "GetProgressCompleted"
         /\ calls[r - 2].ok /\ calls[r - 2].ret = "true"
         /\ \A c \in Idx("CloneTo") : \A i \in (c + 1)..(r - 1) : IsPoll(i)
    /\ \A i \in DOMAIN calls :
         calls[i].api \in ConvergeCalls =>
           /\ \E r \in IdxOK("RegisterMachine") : r < i
           /\ \E g \in IdxOK("GetMachineId") : g < i
           /\ \A k \in DOMAIN CloneSteps : \A j \in Idx(CloneSteps[k]) : j < i
    /\ \A i \in DOMAIN calls :
         (IsPoll(i) /\ Idx("RegisterMachine") = {}) =>
           \E c \in IdxOK("CloneTo") : c < i

\* the clone was polled twice before it completed, the machine was registered
\* and then started
C33_Witness ==
  /\ op = "CloneAndConverge"
  /\ PC = "done"
  /\ result.err = ""
  /\ \E c \in IdxOK("CloneTo"), r \in IdxOK("RegisterMachine") : r > c + 3
  /\ IdxOK("LaunchVMProcess") # {}


(***************************************************************************)
(* C34                                                                     *)
(***************************************************************************)
\* control is inside waitProgress
Waiting == PC \in {"wp_start", "wp", "wp_rc", "wp_text"}

\* the remote operation has not reported completion in the current wait
NeverCompleted ==
  /\ calls # <<>>
  /\ calls[Len(calls)].api = "GetProgressCompleted"
  /\ calls[Len(calls)].ok
  /\ calls[Len(calls)].ret = "false"

\* C34: every waitProgress call returns; every answer "not completed" is
\* followed by a sleep that moves the clock towards the fixed deadline; it
\* makes no probe once the context is cancelled or the clock has passed the
\* deadline, and when it returns after an answer "not completed" it returns
\* the timeout error or the context's error.
C34_WaitReturns ==
  /\ Waiting ~> ~Waiting
  /\ [][(PC = "wp" /\ PC' = "wp" /\ calls' # calls) =>
          (now' >= now + PollInterval /\ deadline' = deadline)]_vars
  /\ [][(PC = "wp" /\ (cancelled \/ now > deadline) /\ cancelled' = cancelled) =>
          (calls' = calls /\ PC' \in WaitReturns /\ err' \in {"Timeout", "Canceled"})]_vars
  /\ []((PC \in WaitReturns /\ NeverCompleted) => err \in {"Timeout", "Canceled"})

\* the clone never completed: two probes answered "not completed" and the
\* wait ended with the timeout error
C34_Witness ==
  /\ op = "CloneAndConverge"
  /\ PC \in WaitReturns
  /\ NeverCompleted
  /\ ~cancelled
  /\ err = "Timeout"
  /\ polls = MaxPolls


(***************************************************************************)
(* C35, C36                                                                *)
(***************************************************************************)
\* C35: a port SelectAvailablePort returns without an error lies in
\* [MinPort, MaxPort], so it is 0 only for a range that contains 0.
C35_SelectedPortInRange ==
  (ppc \in {"done", "again"} /\ sel.err = "") =>
     /\ opts.MinPort <= sel.port
     /\ sel.port <= opts.MaxPort

\* the range [65535, 65535] with 65535 in use: port 0 returned with a nil error
C35_Divergence ==
  /\ ppc = "done"
  /\ opts.MinPort = PortModulus - 1
  /\ opts.MaxPort = PortModulus - 1
  /\ sel.err = ""
  /\ sel.port = 0

\* C36: for MinPort <= MaxPort the body of the scan loop runs at most
\* MaxPort - MinPort + 1 times.
C36_ScanBounded ==
  (ppc = "done" /\ opts.MinPort <= opts.MaxPort) =>
     ScanIterations(opts.MinPort, opts.MaxPort, BuildUsedSet(usedPorts, opts))
       <= opts.MaxPort - opts.MinPort + 1

\* the range [65535, 65535] with 65535 and 0 in use: the loop body runs three
\* times for a range of one port
C36_Divergence ==
  /\ ppc = "done"
  /\ opts.MinPort = PortModulus - 1
  /\ opts.MaxPort = PortModulus - 1
  /\ ScanIterations(opts.MinPort, opts.MaxPort, BuildUsedSet(usedPorts, opts)) = 3
  /\ sel.port = 1


(***************************************************************************)
(* C37                                                                     *)
(***************************************************************************)
\* the lowest port of the range of o that no rule of rules is bound to, or
\* NoPort when every port of the range is bound
LowestUnbound(rules, o) ==
  LET bound == ExistingHostPorts(rules)
      free  == {p \in {o.MinPort} \cup {q + 1 : q \in bound} :
                  o.MinPort <= p /\ p <= o.MaxPort /\ p \notin bound}
  IN  IF free = {} THEN NoPort ELSE MinOf(free)

\* C37: applies run one after the other, scope "any": a port allocated from
\* a complete enumeration is the lowest port of the range bound to no
\* existing rule, and so differs from the port of every rule created before.
C37_SequentialAllocations ==
  [][\A i \in Applies :
       (runs[i].pc = "start" /\ runs'[i].pc = "allocated" /\ runs'[i].full) =>
         /\ runs'[i].port = LowestUnbound(natRules, opts)
         /\ \A j \in Applies : runs[j].pc \in {"created", "done"} => runs'[i].port # runs[j].port
    ]_vars

\* range [65535, 65535], a rule on port 0 exists, the first apply has created
\* its rule on 65535: the second apply is given port 1 and creates its rule
C37_Divergence ==
  /\ opts.MinPort = PortModulus - 1
  /\ runs[1].pc = "done" /\ runs[1].port = PortModulus - 1
  /\ runs[2].pc = "done" /\ runs[2].full /\ runs[2].port = 1


(***************************************************************************)
(* C38                                                                     *)
(***************************************************************************)
\* the diagnostics of an Update that failed after the deletion of the old rule
LaterFailures ==
  {"Failed to allocate host port", "Invalid host port",
   "Failed to create NAT port forward rule", "Failed to verify NAT port forward rule",
   "NAT port forward rule not found after creation"}

\* the DeleteNATPortForward of the Update returned after removing the rule
OldRuleRemoved ==
  /\ callback = "Update"
  /\ op = "DeleteNATPortForward"
  /\ PC = "done"
  /\ result.err = ""
  /\ IdxOK("RemoveNATRedirect") # {}
  /\ IdxOK("SaveSettings") # {}

\* C38: Update starts with DeleteNATPortForward and enters the allocation or
\* the creation only after the deletion returned nil or "not found"; a rule
\* the deletion removed is absent when it returns; the step at which Update
\* fails afterwards adds a diagnostic, makes no remote call and leaves the
\* rules and the state as they are, and a failed Update ends with the prior
\* state.
C38_UpdateStep ==
  /\ (callback = "none" /\ callback' = "Update") =>
        (op' = "DeleteNATPortForward" /\ cpc' = "delete" /\ req'.rule = prior'.Name)
  /\ (callback' = "Update" /\ cpc' # cpc /\ cpc' \in {"allocate", "create"}) =>
        \/ /\ cpc = "delete"
           /\ op = "DeleteNATPortForward"
           /\ PC = "done"
           /\ result.err \in {"", "NotFound"}
        \/ /\ cpc = "allocate"
           /\ cpc' = "create"
           /\ result.err = ""
  /\ (callback = "Update" /\ cpc # "end" /\ cpc' = "end" /\ diags' \in LaterFailures) =>
        /\ cpc \in {"delete", "allocate", "create", "readback"}
        /\ state' = prior
        /\ natRules' = natRules
        /\ calls' = calls
        /\ op' = op
  /\ (callback = "Update" /\ natRules' # natRules /\ cpc # "create") =>
        /\ op = "DeleteNATPortForward"
        /\ natRules' = [natRules EXCEPT ![NatPlace] = WithoutRule(@, prior.Name)]

C38_UpdateNotAtomic ==
  /\ [][C38_UpdateStep]_vars
  /\ [](OldRuleRemoved => ~HasRule(natRules[NatPlace], prior.Name))
  /\ []((CallbackEnded({"Update"}) /\ diags # "") => state = prior)

\* the old rule was removed, the host port then failed validation: the state
\* still records the old rule and the adapter holds no rule of that name
C38_Witness ==
  /\ CallbackEnded({"Update"})
  /\ OldRuleRemoved
  /\ diags = "Invalid host port"
  /\ state = prior
  /\ state.set
  /\ ~HasRule(natRules[NatPlace], prior.Name)

\* the same with the creation of the new rule failing
C38_WitnessCreate ==
  /\ CallbackEnded({"Update"})
  /\ op = "CreateNATPortForward"
  /\ diags = "Failed to create NAT port forward rule"
  /\ state = prior
  /\ ~HasRule(natRules[NatPlace], prior.Name)


(***************************************************************************)
(* C39                                                                     *)
(***************************************************************************)
\* C39: the first step of Create enters AllocateNATHostPort exactly when
\* auto_host_port is set and host_port is 0, enters CreateNATPortForward with
\* the planned port when host_port is not 0, and fails with "Invalid host
\* port" when host_port is 0 and auto_host_port is not set; the allocator is
\* entered at no other step of Create, and every CreateNATPortForward of
\* Create is entered with a host port that is not 0: the planned one, or the
\* one the allocator returned.
C39_CreateStep ==
  /\ (callback = "none" /\ callback' = "Create") =>
        /\ (op' = "AllocateNATHostPort" /\ cpc' = "allocate")
              <=> (plan'.AutoHostPort /\ plan'.HostPort = 0)
        /\ plan'.HostPort # 0 =>
              /\ op' = "CreateNATPortForward"
              /\ cpc' = "create"
              /\ req'.hostPort = plan'.HostPort
        /\ (plan'.HostPort = 0 /\ ~plan'.AutoHostPort) =>
              /\ cpc' = "end"
              /\ diags' = "Invalid host port"
              /\ op' = op
              /\ calls' = calls
  /\ (callback = "Create" /\ callback' = "Create" /\ cpc' = "allocate") => cpc = "allocate"
  /\ (callback' = "Create" /\ cpc' = "create" /\ cpc # "create") =>
        /\ op' = "CreateNATPortForward"
        /\ req'.hostPort # 0
        /\ req'.hostPort = hostPort'
        /\ \/ cpc = "allocate" /\ result.err = "" /\ req'.hostPort = result.val.port
           \/ callback = "none" /\ req'.hostPort = plan'.HostPort
  /\ (callback = "Create" /\ op' = "CreateNATPortForward" /\ op # op') => cpc' = "create"

C39_CreateChoosesPort ==
  /\ [][C39_CreateStep]_vars
  /\ [](callback = "Create" =>
          \A i \in DOMAIN natRules[NatPlace] :
            (natRules[NatPlace][i].Name = plan.Name /\ op = "CreateNATPortForward"
             /\ IdxOK("SaveSettings") # {}) => natRules[NatPlace][i].HostPort # 0)

\* host_port 1 with auto_host_port set: the rule is created on port 1 and the
\* allocator was not asked
C39_Witness ==
  /\ callback = "Create"
  /\ plan.AutoHostPort
  /\ plan.HostPort = 1
  /\ op = "CreateNATPortForward"
  /\ PC = "done"
  /\ result.err = ""
  /\ \E i \in DOMAIN natRules[NatPlace] :
       natRules[NatPlace][i].Name = plan.Name /\ natRules[NatPlace][i].HostPort = 1

\* host_port 0 without auto_host_port: "Invalid host port", no Client call
C39_WitnessInvalid ==
  /\ CallbackEnded({"Create"})
  /\ plan.HostPort = 0
  /\ ~plan.AutoHostPort
  /\ diags = "Invalid host port"
  /\ op = "none"
  /\ calls = <<>>

\* host_port 0 with auto_host_port: the allocated port is used
C39_WitnessAuto ==
  /\ callback = "Create"
  /\ plan.HostPort = 0
  /\ plan.AutoHostPort
  /\ op = "CreateNATPortForward"
  /\ req.hostPort = 1
  /\ hostPort = 1


(***************************************************************************)
(* C32                                                                     *)
(***************************************************************************)
\* the resources the README documents
DocumentedResources == {machineCloneResource, natPortForwardResource}

\* C32: the list Resources returns has exactly two factories, every one of
\* them yields a resource, and the resources are the machine resource and
\* the NAT port-forward resource.
C32_BothResourcesRegistered ==
  fpc = "returned" =>
    /\ Len(output.val) = 2
    /\ \A i \in DOMAIN output.val : output.val[i] \in DocumentedResources
    /\ {output.val[i] : i \in DOMAIN output.val} = DocumentedResources

\* the list holds the factory of the machine resource and no other
C32_Divergence ==
  /\ fpc = "returned"
  /\ output.val = <<machineCloneResource>>
  /\ callback = "machineCreate"

(***************************************************************************)
(* C40                                                                     *)
(***************************************************************************)
\* C40: the machine resource's Create ends with a state exactly when
\* CloneAndConverge returned no error, and then the state holds the UUID and
\* the machine state returned; with an error it ends with the diagnostic and
\* no state, also when the error comes with the UUID of a machine that was
\* registered and is not unregistered.
C40_StateIffCloned ==
  CallbackEnded({"machineCreate"}) =>
    /\ op = "CloneAndConverge"
    /\ state.set <=> result.err = ""
    /\ (diags = "Failed to clone VM") <=> result.err # ""
    /\ diags \in {"", "Failed to clone VM"}
    /\ state.set =>
          /\ state.ID = result.val.uuid
          /\ state.ID = "uuid"
          /\ state.CurrentState = result.val.state
          /\ state.DesiredState = plan.DesiredState
    /\ ~state.set => state = NoMachineState
    /\ (result.err # "" /\ IdxOK("GetMachineId") # {}) =>
          /\ result.val.uuid = "uuid"
          /\ IdxOK("RegisterMachine") # {}
          /\ Idx("UnregisterMachine") \cup Idx("DeleteConfig") = {}

\* the machine was registered and its UUID read, the start failed: Create
\* ended with the diagnostic and no state
C40_Witness ==
  /\ CallbackEnded({"machineCreate"})
  /\ IdxOK("RegisterMachine") # {}
  /\ IdxOK("GetMachineId") # {}
  /\ result.err = "LaunchVMProcess"
  /\ result.val.uuid = "uuid"
  /\ diags = "Failed to clone VM"
  /\ state = NoMachineState

\* Create ended with a state
C40_WitnessState ==
  /\ CallbackEnded({"machineCreate"})
  /\ result.err = ""
  /\ state.set
  /\ state.CurrentState = MachineStateRunning

=============================================================================
